---------------------------- MODULE Spec2Model ----------------------------
(***************************************************************************)
(* BDO pneumatic pump controller: the fill state machine (main.c), the     *)
(* four-stage safety interlock (safety_system.c), the pressure actuator,   *)
(* PID and relay auto-tune (pressure_controller.c), the HTTP command port  *)
(* (webserver.c) and the encoder (display_driver.c).                       *)
(*                                                                         *)
(* Units.  Weights are whole pounds.  Percentages, PID gains, flows and    *)
(* the PID accumulator are fixed-point thousandths (33.0 % is 33000,       *)
(* Kp = 2.5 is 2500, 0.3 lbs/s is 300).  On the inputs the model draws     *)
(* (whole pounds, time steps of 0.5 s) every float operation of the        *)
(* source has an exact result on this grid.                                *)
(*                                                                         *)
(* Time.  The firmware reads esp_timer_get_time() only in differences      *)
(* against a stored start time.  Each stored start time is modelled by a   *)
(* clock holding that difference in milliseconds: storing "now" resets the *)
(* clock to 0, Advance lets time pass, and a clock stops one past the      *)
(* largest value it is compared with.                                      *)
(***************************************************************************)
EXTENDS Integers, Sequences, FiniteSets, TLC

(***************************************************************************)
(* Program constants                                                       *)
(***************************************************************************)
\* system_state_enum_t
STATE_IDLE         == "IDLE"
STATE_SAFETY_CHECK == "SAFETY_CHECK"
STATE_FILLING      == "FILLING"
STATE_COMPLETED    == "COMPLETED"
STATE_ERROR        == "ERROR"
STATE_CANCELLED    == "CANCELLED"

\* fill_zone_t
ZONE_IDLE     == "ZONE_IDLE"
ZONE_FAST     == "FAST"
ZONE_MODERATE == "MODERATE"
ZONE_SLOW     == "SLOW"
ZONE_FINE     == "FINE"

\* safety_state_t (the code compares these by order)
SAFETY_IDLE           == 0
SAFETY_AIR_CHECK      == 1
SAFETY_HOSE_CHECK     == 2
SAFETY_POSITION_CHECK == 3
SAFETY_START_CHECK    == 4
SAFETY_COMPLETE       == 5
SAFETY_TIMEOUT        == 6
SAFETY_CANCELLED      == 7

\* error_code_t
ERROR_NONE             == "NONE"
ERROR_SAFETY_TIMEOUT   == "SAFETY_TIMEOUT"
ERROR_OVERFILL         == "OVERFILL"
ERROR_AUTOTUNE_TIMEOUT == "AUTOTUNE_TIMEOUT"

\* autotune phase
AUTOTUNE_IDLE        == "AT_IDLE"
AUTOTUNE_INIT        == "AT_INIT"
AUTOTUNE_SETTLING    == "AT_SETTLING"
AUTOTUNE_RELAY_TEST  == "AT_RELAY_TEST"
AUTOTUNE_CALCULATING == "AT_CALCULATING"
AUTOTUNE_COMPLETE    == "AT_COMPLETE"
AUTOTUNE_TIMEOUT     == "AT_TIMEOUT"
AUTOTUNE_CANCELLED   == "AT_CANCELLED"

\* esp_err_t values the handlers return
ESP_OK                == "ESP_OK"
ESP_FAIL              == "ESP_FAIL"
ESP_ERR_INVALID_STATE == "ESP_ERR_INVALID_STATE"

\* config.h: zone thresholds, in tenths of a percent of the target
ZONE_FAST_END     == 600
ZONE_MODERATE_END == 850
ZONE_SLOW_END     == 975
ZONE_FINE_END     == 1000

\* config.h: zone base setpoints, thousandths of a percent
PRESSURE_FAST     == 33000
PRESSURE_MODERATE == 66000
PRESSURE_SLOW     == 100000
PRESSURE_FINE     == 83000

\* config.h: the largest PID adjustment of each zone, thousandths of a percent
PID_RANGE_FAST     == 8000
PID_RANGE_MODERATE == 16000
PID_RANGE_SLOW     == 13000
PID_RANGE_FINE     == 16000
PID_GAIN_MULT_FAST     == 1500
PID_GAIN_MULT_MODERATE == 1000
PID_GAIN_MULT_SLOW     == 700
PID_GAIN_MULT_FINE     == 400

\* config.h: timeouts (ms), DAC range, target limits (lbs)
SAFETY_CHECK_TIMEOUT_MS == 30000
AUTOTUNE_TIMEOUT_MS     == 120000
DAC_MAX_VALUE           == 255
DEFAULT_TARGET_WEIGHT_LBS == 200
MIN_TARGET_WEIGHT_LBS   == 10
MAX_TARGET_WEIGHT_LBS   == 250
WEIGHT_INCREMENT_LBS    == 5

\* config.h: PID defaults and limits, thousandths
DEFAULT_PID_KP   == 2500
DEFAULT_PID_KI   == 500
DEFAULT_PID_KD   == 100
PID_OUTPUT_MIN   == 0
PID_OUTPUT_MAX   == 100000
PID_INTEGRAL_MIN == -50000
PID_INTEGRAL_MAX == 50000

\* config.h: auto-tune
AUTOTUNE_TARGET_WEIGHT    == 50
AUTOTUNE_MIN_OSCILLATIONS == 3
AUTOTUNE_STEP_PERCENT     == 20000
\* used by pressure_controller.c, defined in no file of the repository:
\* the relay centre (the "test at 50 % pressure" of config.h) and the weight
\* the relay oscillates around ("mid-point of test fill")
AUTOTUNE_PRESSURE_CENTER  == 50000
AUTOTUNE_WEIGHT_SETPOINT  == 25

(***************************************************************************)
(* Bounds of the model                                                     *)
(***************************************************************************)
MaxFills           == 1    \* completed fills counted before the run is cut
MaxZoneTransitions == 4    \* zone changes counted before the run is cut
MaxDetents         == 1    \* encoder detents applied before the run is cut
MaxPidCalls        == 2    \* hybrid PID evaluations before the run is cut
MaxTuneMs          == 2000 \* auto-tune time followed second by second, ms
MaxScaleFails      == 20   \* failed scale reads in a row that are counted
MaxBoots           == 2    \* restarts before the run is cut

\* elapsed time between two handler executions, ms
TimeSteps == {500, 15000}
ApiTimeSteps == {500, 130000}
\* weights the scale can report, lbs (thresholds of a 200 lb target are
\* 120, 170, 195, 200 and the overfill limit 204)
Weights == {0, 120, 170, 195, 200, 205}
\* targets requested over HTTP, lbs (5 and 300 are out of range)
Targets == {5, 250, 300}
\* weights of the runs with auto-tune (50 lb target, relay around 25 lbs)
ApiWeights == {0, 30, 205}
\* the runs that follow the relay test: seconds, and a jump past the
\* auto-tune timeout; weights below and above the relay setpoint (25 lbs)
TuneTimeSteps == {1000, 130000}
TuneWeights == {0, 10, 30}
\* targets and weights of the runs of the zone schedule: the weights on and
\* next to the zone thresholds of a 40 lb target (24, 34, 39, 40) and of a
\* 200 lb target (120, 170, 195, 200)
ZoneTargets == {40, 200}
ZoneWeights == {0, 23, 24, 25, 33, 34, 35, 38, 39, 40, 41,
                119, 120, 121, 169, 170, 171, 194, 195, 196, 199, 200, 201}
\* arguments of the calls of the PID engine: setpoint and measurement in
\* thousandths, and the time since the previous call in microseconds (0 and
\* 1.5 s are rejected, 1 s is the longest step accepted); the weights of
\* the fill the calls are made in (199 lbs of 200: zone Fine)
PidArgs == {0, 3000, 100000} \X {0, 100000} \X {0, 500000, 1000000, 1500000}
PidWeights == {0, 199}
\* the peaks a relay test has recorded when it ends: the times of four
\* peaks (ms since the start of the auto-tune) and their weights (lbs)
CalcPeakTimes == {<<1000, 3000, 5000, 7000>>, <<1000, 2000, 3000, 4000>>,
                  <<2000, 3000, 7000, 8000>>}
CalcPeakValues == [1 .. 4 -> {10, 15, 20, 22}]
\* gains kp, ki, kd handed to pressure_controller_set_pid_params
StoreGains == {1500, 4000} \X {0, 750} \X {100, 200}

(***************************************************************************)
(* State                                                                   *)
(***************************************************************************)
VARIABLES
    \* g_system_state
    state, safety_state, active_zone, error,
    target_weight_lbs, current_weight_lbs, start_weight_lbs,
    pressure_setpoint_pct,
    fill_number, fills_today, total_lbs_today, zone_transitions,
    scale_online, pid_enabled, autotune_state,
    \* s_safety
    check_elapsed_ms, button_last_state, waiting_for_release,
    \* s_pid, and the clock of s_pid.last_time_us
    pid, pid_elapsed_ms,
    \* statics of control_task_fill_logic, and the clock of prev_time_us
    prev_weight, flow_elapsed_ms,
    \* s_autotune, the clock of start_time_us, the static of detect_peak
    autotune, autotune_elapsed_ms, prev_prev_weight,
    \* the value last written to the DAC (0..255)
    dac_value,
    \* where control_task is: "run" (between ticks), "hold" (inside the
    \* 2 s delay of STATE_COMPLETED) or, where the stores of the completion
    \* are taken one by one, before the store into "fill_number",
    \* "fills_today" or "total_lbs_today"; or, where the read of the mode
    \* is a step of its own, "fill": the switch has read STATE_FILLING and
    \* control_task_fill_logic has not run yet
    control_pc,
    \* observation of the run (not program state)
    release_seen,    \* a safety tick saw the button up in the current stage
    stage_age_ms,    \* time since the current safety stage became active
    confirms,        \* stage advances since the last IDLE -> SAFETY_CHECK
    detents, pid_calls,  \* counters that cut the run
    stop_ticked,     \* a whole Control tick ran in the present CANCELLED or ERROR
    at_ticked,       \* a whole Control tick ran in the present active auto-tune
    \* g_system_state.pid_tuned, and the PID parameters held in flash (NVS)
    pid_tuned, nvs,
    \* observation of the run, continued
    reset_pressed,   \* an Operator tick read the button down in the present
                     \* CANCELLED or ERROR
    scale_fails,     \* failed scale reads in a row while in STATE_FILLING
    pid_returned,    \* the value the last call of compute_pid returned
    boots,           \* restarts of the controller since power-on
    tune_ended       \* an auto-tune has ended (result Ok or Failure, or
                     \* cancel) since the last start from STATE_IDLE

gvars   == <<state, safety_state, active_zone, error, target_weight_lbs,
             current_weight_lbs, start_weight_lbs, pressure_setpoint_pct,
             fill_number, fills_today, total_lbs_today, zone_transitions,
             scale_online, pid_enabled, autotune_state>>
svars   == <<check_elapsed_ms, button_last_state, waiting_for_release>>
pvars   == <<pid, pid_elapsed_ms, prev_weight, flow_elapsed_ms>>
avars   == <<autotune, autotune_elapsed_ms, prev_prev_weight>>
obsvars == <<release_seen, stage_age_ms, confirms, detents,
             pid_calls, stop_ticked>>
nvars   == <<pid_tuned, nvs>>
hvars   == <<reset_pressed, scale_fails, pid_returned, boots, tune_ended>>
vars    == <<gvars, svars, pvars, avars, dac_value, control_pc, obsvars,
             at_ticked, nvars, hvars>>

(***************************************************************************)
(* Arithmetic helpers                                                      *)
(***************************************************************************)
\* C division of integers (rounds toward zero)
TruncDiv(a, b) == IF a >= 0 THEN a \div b ELSE -((-a) \div b)

Abs(x) == IF x < 0 THEN -x ELSE x

Sign(x) == IF x < 0 THEN -1 ELSE 1

RECURSIVE Gcd(_, _)
Gcd(a, b) == IF b = 0 THEN a ELSE Gcd(b, a % b)

\* Magnitudes from Huge on stand for a float too large for the fixed-point
\* grid.  Every such value reaches the clamp to [0, 100] of the PID output
\* with its sign intact: the other terms stay below 2 * 10^6.
Huge == 1000 * 1000 * 1000

\* a * b, or a value of that sign beyond the grid
SatMul(a, b) ==
    IF a = 0 \/ b = 0 THEN 0
    ELSE IF Abs(a) >= Huge \/ Abs(b) >= Huge \/ Abs(a) > Huge \div Abs(b)
    THEN Sign(a) * Sign(b) * Huge
    ELSE a * b

\* a * n / d for n >= 0, d > 0, the fraction reduced before multiplying
MulDiv(a, n, d) ==
    LET g == Gcd(n, d)
        m == SatMul(a, n \div g)
    IN  IF Abs(m) >= Huge THEN m ELSE TruncDiv(m, d \div g)

\* a + b
SatAdd(a, b) ==
    IF Abs(a) >= Huge THEN a
    ELSE IF Abs(b) >= Huge THEN b
    ELSE IF Abs(a + b) >= Huge THEN Sign(a + b) * Huge
    ELSE a + b

\* a clock that has reached `limit` stops at limit + 1
Tick(clock, d, limit) == IF clock + d > limit THEN limit + 1 ELSE clock + d

SafetyStages == SAFETY_AIR_CHECK .. SAFETY_START_CHECK

(***************************************************************************)
(* Pressure actuator                                                       *)
(***************************************************************************)
\* the 8-bit DAC code of a percentage: (uint8_t)((percent / 100) * 255)
DacCode(percent) == (percent * DAC_MAX_VALUE) \div 100000

\* unit mix-up: the DAC code (0..255) is stored as the commanded percentage
set_dac_output_StoresCode(percent) ==
    LET c == IF percent < 0 THEN 0 ELSE IF percent > 100000 THEN 100000 ELSE percent
    IN  [dac |-> DacCode(c), output_percent |-> DacCode(c) * 1000]

\* set_dac_output: clamp to [0, 100], write the DAC, remember the percentage
set_dac_output(percent) ==
    LET c == IF percent < 0 THEN 0 ELSE IF percent > 100000 THEN 100000 ELSE percent
    IN  [dac |-> DacCode(c), output_percent |-> c]

(***************************************************************************)
(* Safety sequencer                                                        *)
(***************************************************************************)
\* button_pressed: edge detection on the level `cur` read from the GPIO
button_pressed(cur, lastb, waiting) ==
    LET pressed == cur /\ ~lastb /\ ~waiting
        w1 == IF pressed THEN TRUE ELSE waiting
        w2 == IF ~cur /\ w1 THEN FALSE ELSE w1
    IN  [pressed |-> pressed, waiting |-> w2, lastb |-> cur]

\* the timeout is never detected
check_timeout_Never(elapsed_ms) == FALSE

\* check_timeout
check_timeout(elapsed_ms) == elapsed_ms > SAFETY_CHECK_TIMEOUT_MS

\* a stage starts without requiring a release of the button
start_check_stage_NoRelease(new_state, waiting) ==
    [safety_state |-> new_state, check_elapsed_ms |-> 0, waiting |-> waiting]

\* start_check_stage: enter the stage, restart its timer, require a release
start_check_stage(new_state, waiting) ==
    [safety_state |-> new_state, check_elapsed_ms |-> 0, waiting |-> TRUE]

\* a confirmation in the air check jumps to the position check
StageAfter_Skip(s) ==
    CASE s = SAFETY_AIR_CHECK      -> SAFETY_POSITION_CHECK
      [] s = SAFETY_HOSE_CHECK     -> SAFETY_POSITION_CHECK
      [] s = SAFETY_POSITION_CHECK -> SAFETY_START_CHECK
      [] s = SAFETY_START_CHECK    -> SAFETY_COMPLETE

\* the stage each case of safety_run_checks moves to on a confirmation
StageAfter(s) ==
    CASE s = SAFETY_AIR_CHECK      -> SAFETY_HOSE_CHECK
      [] s = SAFETY_HOSE_CHECK     -> SAFETY_POSITION_CHECK
      [] s = SAFETY_POSITION_CHECK -> SAFETY_START_CHECK
      [] s = SAFETY_START_CHECK    -> SAFETY_COMPLETE

\* every phase that is no check stage reports success
TerminalResult_AlwaysOk(ss) == ESP_OK

\* the cases SAFETY_COMPLETE, SAFETY_TIMEOUT, SAFETY_CANCELLED and default
\* of safety_run_checks
TerminalResult(ss) == IF ss = SAFETY_COMPLETE THEN ESP_OK ELSE ESP_FAIL

\* safety_run_checks on the state (ss, elapsed, lastb, waiting) with button
\* level cur: the new safety state, the result, and whether error is set
safety_run_checks(ss, elapsed, lastb, waiting, cur) ==
    LET same == [safety_state |-> ss, check_elapsed_ms |-> elapsed,
                 waiting |-> waiting, lastb |-> lastb,
                 set_error |-> FALSE, pressed |-> FALSE]
    IN
    IF ss \in SafetyStages /\ check_timeout(elapsed)
    THEN [same EXCEPT !.safety_state = SAFETY_TIMEOUT, !.set_error = TRUE]
             @@ [result |-> ESP_FAIL]
    ELSE IF ss = SAFETY_IDLE
    THEN LET st == start_check_stage(SAFETY_AIR_CHECK, waiting)
         IN  [same EXCEPT !.safety_state = st.safety_state,
                          !.check_elapsed_ms = st.check_elapsed_ms,
                          !.waiting = st.waiting]
                 @@ [result |-> ESP_ERR_INVALID_STATE]
    ELSE IF ss \in SafetyStages
    THEN LET bp == button_pressed(cur, lastb, waiting)
         IN  IF ~bp.pressed
             THEN [same EXCEPT !.waiting = bp.waiting, !.lastb = bp.lastb]
                      @@ [result |-> ESP_ERR_INVALID_STATE]
             ELSE IF ss = SAFETY_START_CHECK
             THEN [same EXCEPT !.safety_state = StageAfter(ss),
                               !.waiting = bp.waiting, !.lastb = bp.lastb,
                               !.pressed = TRUE]
                      @@ [result |-> ESP_OK]
             ELSE LET st == start_check_stage(StageAfter(ss), bp.waiting)
                  IN  [same EXCEPT !.safety_state = st.safety_state,
                                   !.check_elapsed_ms = st.check_elapsed_ms,
                                   !.waiting = st.waiting, !.lastb = bp.lastb,
                                   !.pressed = TRUE]
                          @@ [result |-> ESP_ERR_INVALID_STATE]
    ELSE same @@ [result |-> TerminalResult(ss)]

(***************************************************************************)
(* PID engine                                                              *)
(***************************************************************************)
\* the reset also restores the default gains
pressure_controller_reset_pid_Defaults(p) ==
    [p EXCEPT !.integral = 0, !.prev_measurement = 0,
              !.kp = DEFAULT_PID_KP, !.ki = DEFAULT_PID_KI, !.kd = DEFAULT_PID_KD]

\* pressure_controller_reset_pid (the caller also restarts the PID clock)
pressure_controller_reset_pid(p) ==
    [p EXCEPT !.integral = 0, !.prev_measurement = 0]

\* the derivative is taken of the error
DerivativeInput_Error(setpoint, measurement) == measurement - setpoint

\* the quantity whose change the derivative term follows: the measurement
DerivativeInput(setpoint, measurement) == measurement

\* pressure_controller_compute_pid with dt_us microseconds since the
\* previous call: the new s_pid and the value returned
pressure_controller_compute_pid(p, setpoint, measurement, dt_us) ==
    IF dt_us <= 0 \/ dt_us > 1000000
    THEN [pid |-> [p EXCEPT !.prev_measurement = measurement],
          out |-> p.output_percent]
    ELSE LET err    == setpoint - measurement
             p_term == MulDiv(err, p.kp, 1000)
             i_raw  == SatAdd(p.integral, MulDiv(err, dt_us, 1000000))
             integ  == IF i_raw > PID_INTEGRAL_MAX THEN PID_INTEGRAL_MAX
                       ELSE IF i_raw < PID_INTEGRAL_MIN THEN PID_INTEGRAL_MIN
                       ELSE i_raw
             i_term == MulDiv(integ, p.ki, 1000)
             deriv  == MulDiv(DerivativeInput(setpoint, measurement)
                                  - p.prev_measurement, 1000000, dt_us)
             d_term == -MulDiv(deriv, p.kd, 1000)
             raw    == SatAdd(SatAdd(p_term, i_term), d_term)
             output == IF raw < PID_OUTPUT_MIN THEN PID_OUTPUT_MIN
                       ELSE IF raw > PID_OUTPUT_MAX THEN PID_OUTPUT_MAX
                       ELSE raw
         IN  [pid |-> [p EXCEPT !.integral = integ,
                                !.prev_measurement = measurement,
                                !.output_percent = output],
              out |-> output]

(***************************************************************************)
(* Zone schedule and fill control law (control_task_fill_logic)            *)
(***************************************************************************)
\* the threshold itself still belongs to the zone below it
Below_Inclusive(current, target, bound) == current * 1000 <= bound * target

\* percent_complete < bound, bound in tenths of a percent:
\* (current / target) * 100 < bound / 10
Below(current, target, bound) == current * 1000 < bound * target

\* the branch of the zone ladder taken: a zone, or "COMPLETE"
SelectZone(current, target) ==
    IF Below(current, target, ZONE_FAST_END) THEN ZONE_FAST
    ELSE IF Below(current, target, ZONE_MODERATE_END) THEN ZONE_MODERATE
    ELSE IF Below(current, target, ZONE_SLOW_END) THEN ZONE_SLOW
    ELSE IF Below(current, target, ZONE_FINE_END) THEN ZONE_FINE
    ELSE "COMPLETE"

\* the setpoints rise with the zones: Slow and Fine are exchanged
ZoneSetpoint_Rising(zone) ==
    CASE zone = ZONE_FAST     -> PRESSURE_FAST
      [] zone = ZONE_MODERATE -> PRESSURE_MODERATE
      [] zone = ZONE_SLOW     -> PRESSURE_FINE
      [] zone = ZONE_FINE     -> PRESSURE_SLOW

\* zone_setpoint of the branch
ZoneSetpoint(zone) ==
    CASE zone = ZONE_FAST     -> PRESSURE_FAST
      [] zone = ZONE_MODERATE -> PRESSURE_MODERATE
      [] zone = ZONE_SLOW     -> PRESSURE_SLOW
      [] zone = ZONE_FINE     -> PRESSURE_FINE

\* get_zone_pid_range
get_zone_pid_range(zone) ==
    CASE zone = ZONE_FAST     -> PID_RANGE_FAST
      [] zone = ZONE_MODERATE -> PID_RANGE_MODERATE
      [] zone = ZONE_SLOW     -> PID_RANGE_SLOW
      [] zone = ZONE_FINE     -> PID_RANGE_FINE
      [] OTHER                -> 10000

\* get_zone_gain_multiplier
get_zone_gain_multiplier(zone) ==
    CASE zone = ZONE_FAST     -> PID_GAIN_MULT_FAST
      [] zone = ZONE_MODERATE -> PID_GAIN_MULT_MODERATE
      [] zone = ZONE_SLOW     -> PID_GAIN_MULT_SLOW
      [] zone = ZONE_FINE     -> PID_GAIN_MULT_FINE
      [] OTHER                -> 1000

\* pressure_controller_set_hybrid with dt_us microseconds since the previous
\* call of the PID: the new s_pid and the percentage handed to set_dac_output
pressure_controller_set_hybrid(p, zone, zone_setpoint, current_pressure, dt_us) ==
    IF dt_us <= 0 \/ dt_us > 1000000
    THEN [pid |-> [p EXCEPT !.prev_measurement = current_pressure],
          percent |-> zone_setpoint]
    ELSE LET gain_mult  == get_zone_gain_multiplier(zone)
             temp_kp    == MulDiv(p.kp, gain_mult, 1000)
             temp_ki    == MulDiv(p.ki, gain_mult, 1000)
             temp_kd    == MulDiv(p.kd, gain_mult, 1000)
             err        == zone_setpoint - current_pressure
             p_term     == MulDiv(err, temp_kp, 1000)
             i_raw      == SatAdd(p.integral, MulDiv(err, dt_us, 1000000))
             zone_range == get_zone_pid_range(zone)
             integral_limit == TruncDiv(zone_range * 1000, temp_ki + 1)
             integ      == IF i_raw > integral_limit THEN integral_limit
                           ELSE IF i_raw < -integral_limit THEN -integral_limit
                           ELSE i_raw
             i_term     == MulDiv(integ, temp_ki, 1000)
             deriv      == MulDiv(current_pressure - p.prev_measurement,
                                  1000000, dt_us)
             d_term     == -MulDiv(deriv, temp_kd, 1000)
             raw        == SatAdd(SatAdd(p_term, i_term), d_term)
             adjustment == IF raw > zone_range THEN zone_range
                           ELSE IF raw < -zone_range THEN -zone_range
                           ELSE raw
             o          == zone_setpoint + adjustment
             output     == IF o < PID_OUTPUT_MIN THEN PID_OUTPUT_MIN
                           ELSE IF o > PID_OUTPUT_MAX THEN PID_OUTPUT_MAX
                           ELSE o
         IN  [pid |-> [p EXCEPT !.integral = integ,
                                !.prev_measurement = current_pressure,
                                !.output_percent = output],
              percent |-> output]

\* target_flow of the hybrid branch, thousandths of lbs/s
TargetFlow(zone) ==
    CASE zone = ZONE_FAST     -> 3000
      [] zone = ZONE_MODERATE -> 2000
      [] zone = ZONE_SLOW     -> 1000
      [] zone = ZONE_FINE     -> 300
      [] OTHER                -> 1000

\* time, in microseconds, between pressure_controller_reset_pid and the
\* pressure_controller_compute_pid that follows it in the same tick
SameTickUs == {10}

(***************************************************************************)
(* Auto-tune engine                                                        *)
(***************************************************************************)
RECURSIVE SumDiffs(_, _)
\* sum of s[i+1] - s[i] over the consecutive elements of s from k on
SumDiffs(s, k) == IF k >= Len(s) THEN 0 ELSE (s[k + 1] - s[k]) + SumDiffs(s, k + 1)

\* the amplitude is that of the last two peaks
MaxAmplitude_Last(s, k) == Abs(s[Len(s)] - s[Len(s) - 1])

RECURSIVE MaxAmplitude(_, _)
\* max over i of |s[i+1] - s[i]|, starting from max_amplitude = 0
MaxAmplitude(s, k) ==
    IF k >= Len(s) THEN 0
    ELSE LET a == Abs(s[k + 1] - s[k])
             m == MaxAmplitude(s, k + 1)
         IN  IF a > m THEN a ELSE m

\* detect_peak: a local maximum of the last three samples is stored while
\* fewer than 10 peaks are held; the sample history shifts
detect_peak(at, pp_weight, current, elapsed_ms) ==
    LET is_peak == at.last_weight > current /\ at.last_weight > pp_weight
                   /\ Len(at.peak_values) < 10
    IN  [at |-> [at EXCEPT
                   !.peak_times  = IF is_peak THEN Append(@, elapsed_ms) ELSE @,
                   !.peak_values = IF is_peak THEN Append(@, at.last_weight) ELSE @,
                   !.last_weight = current],
         prev_prev_weight |-> at.last_weight]

\* the mark of a float that is no finite number (a division by zero gave
\* inf or nan); the gains the relay test computes are never negative
NotANumber == -1

\* calculate_pid_params: the new s_autotune and autotune_state.  A zero
\* amplitude or period divides by zero in floating point: the gains are
\* then not numbers.
calculate_pid_params(at) ==
    IF Len(at.peak_values) < AUTOTUNE_MIN_OSCILLATIONS + 1
    THEN [at |-> at, autotune_state |-> AUTOTUNE_TIMEOUT]
    ELSE LET n   == Len(at.peak_times)
             pu  == TruncDiv(SumDiffs(at.peak_times, 1), n - 1)
             amp == MaxAmplitude(at.peak_values, 1)
             ku  == IF amp = 0 THEN NotANumber
                    ELSE TruncDiv(4 * AUTOTUNE_STEP_PERCENT * 1000, 3142 * amp)
             bad == amp = 0 \/ pu = 0
         IN  [at |-> [at EXCEPT
                        !.ultimate_period = pu,
                        !.ultimate_gain   = ku,
                        !.calculated_kp = IF amp = 0 THEN NotANumber ELSE TruncDiv(600 * ku, 1000),
                        !.calculated_ki = IF bad THEN NotANumber ELSE TruncDiv(1200 * ku, pu),
                        !.calculated_kd = IF amp = 0 THEN NotANumber
                                          ELSE MulDiv(75 * ku, pu, 1000000)],
              autotune_state |-> AUTOTUNE_COMPLETE]

\* the global timeout is never detected
autotune_timed_out_Never(elapsed_ms) == FALSE

\* the timeout test of pressure_controller_run_autotune
autotune_timed_out(elapsed_ms) == elapsed_ms > AUTOTUNE_TIMEOUT_MS

\* the relay never goes low
RelaySwitch_HighOnly(relay_state, current) ==
    IF AUTOTUNE_WEIGHT_SETPOINT - current > 0 /\ ~relay_state THEN "high"
    ELSE "keep"

\* the relay logic of AUTOTUNE_RELAY_TEST: the level the relay switches to
RelaySwitch(relay_state, current) ==
    LET err == AUTOTUNE_WEIGHT_SETPOINT - current
    IN  IF err > 0 /\ ~relay_state THEN "high"
        ELSE IF err < 0 /\ relay_state THEN "low"
        ELSE "keep"

\* the relay test ends on the peak count only
RelayTestDone_PeaksOnly(peak_count, current) ==
    peak_count >= AUTOTUNE_MIN_OSCILLATIONS + 1

\* the end test of AUTOTUNE_RELAY_TEST
RelayTestDone(peak_count, current) ==
    peak_count >= AUTOTUNE_MIN_OSCILLATIONS + 1 \/ current >= AUTOTUNE_TARGET_WEIGHT

\* pressure_controller_run_autotune(current_weight) on an active auto-tune:
\* the result with the new auto-tune state, target, error and DAC request
\* (dac = -1: the DAC is not written)
pressure_controller_run_autotune(at, at_state, pp_weight, current, elapsed_ms) ==
    LET keep == [at |-> at, autotune_state |-> at_state,
                 prev_prev_weight |-> pp_weight, set_target |-> FALSE,
                 set_error |-> FALSE, dac |-> -1,
                 result |-> ESP_ERR_INVALID_STATE]
    IN
    IF autotune_timed_out(elapsed_ms)
    THEN [keep EXCEPT !.at = [at EXCEPT !.active = FALSE],
                      !.autotune_state = AUTOTUNE_TIMEOUT,
                      !.set_error = TRUE, !.dac = 0, !.result = ESP_FAIL]
    ELSE CASE at_state = AUTOTUNE_INIT ->
                [keep EXCEPT !.at = [at EXCEPT !.last_weight = current],
                             !.autotune_state = AUTOTUNE_SETTLING,
                             !.set_target = TRUE,
                             !.dac = at.relay_output_high]
           [] at_state = AUTOTUNE_SETTLING ->
                [keep EXCEPT !.autotune_state =
                                 IF current > 5 THEN AUTOTUNE_RELAY_TEST ELSE @]
           [] at_state = AUTOTUNE_RELAY_TEST ->
                LET dp   == detect_peak(at, pp_weight, current, elapsed_ms)
                    up   == RelaySwitch(at.relay_state, current) = "high"
                    down == RelaySwitch(at.relay_state, current) = "low"
                    at2  == [dp.at EXCEPT !.relay_state =
                                 IF up THEN TRUE ELSE IF down THEN FALSE ELSE @]
                    done == RelayTestDone(Len(at2.peak_values), current)
                IN  [keep EXCEPT !.at = at2,
                                 !.prev_prev_weight = dp.prev_prev_weight,
                                 !.autotune_state =
                                     IF done THEN AUTOTUNE_CALCULATING ELSE @,
                                 !.dac = IF done THEN 0
                                         ELSE IF up THEN at.relay_output_high
                                         ELSE IF down THEN at.relay_output_low
                                         ELSE -1]
           [] at_state = AUTOTUNE_CALCULATING ->
                LET c == calculate_pid_params(at)
                IN  [keep EXCEPT !.at = [c.at EXCEPT !.active = FALSE],
                                 !.autotune_state = c.autotune_state,
                                 !.result = IF c.autotune_state = AUTOTUNE_COMPLETE
                                            THEN ESP_OK ELSE ESP_FAIL]
           [] OTHER -> keep

(***************************************************************************)
(* Parameter store (NVS)                                                   *)
(***************************************************************************)
\* no PID parameters in flash: nvs_open or a nvs_get_blob fails
NvsEmpty == [present |-> FALSE, kp |-> 0, ki |-> 0, kd |-> 0, tuned |-> 0]

\* the parameters of an earlier tuning, saved with the tuned flag
NvsTuned == [present |-> TRUE, kp |-> 1500, ki |-> 750, kd |-> 200,
             tuned |-> 1]

\* a failed load leaves the gains it has read in place
InitPidParams_KeepsRead(store, ok) ==
    [kp |-> IF store.present THEN store.kp ELSE DEFAULT_PID_KP,
     ki |-> IF store.present /\ ok THEN store.ki ELSE DEFAULT_PID_KI,
     kd |-> IF store.present /\ ok THEN store.kd ELSE DEFAULT_PID_KD,
     tuned |-> store.present /\ ok /\ store.tuned # 0]

\* the gains and the tuned flag after pressure_controller_init:
\* pressure_controller_load_pid_params reads them from the store, and the
\* defaults replace them when the namespace is absent or a read fails (ok
\* is false)
InitPidParams(store, ok) ==
    IF store.present /\ ok
    THEN [kp |-> store.kp, ki |-> store.ki, kd |-> store.kd,
          tuned |-> store.tuned # 0]
    ELSE [kp |-> DEFAULT_PID_KP, ki |-> DEFAULT_PID_KI, kd |-> DEFAULT_PID_KD,
          tuned |-> FALSE]

(***************************************************************************)
(* Initial state: app_main has started the tasks, pressure_controller_init *)
(* and safety_init have run, no stored PID parameters.  The first tick     *)
(* that reads the PID or flow clock is in STATE_FILLING, at least five     *)
(* 200 ms display ticks after boot: both clocks have passed one second.    *)
(***************************************************************************)
BootFrom(hybrid, store) ==
    /\ state = STATE_IDLE
    /\ safety_state = SAFETY_IDLE
    /\ active_zone = ZONE_IDLE
    /\ error = ERROR_NONE
    /\ target_weight_lbs = DEFAULT_TARGET_WEIGHT_LBS
    /\ current_weight_lbs = 0
    /\ start_weight_lbs = 0
    /\ pressure_setpoint_pct = 0
    /\ fill_number = 0
    /\ fills_today = 0
    /\ total_lbs_today = 0
    /\ zone_transitions = 0
    /\ scale_online = FALSE
    /\ pid_enabled = hybrid
    /\ autotune_state = AUTOTUNE_IDLE
    /\ check_elapsed_ms = 0
    /\ button_last_state = FALSE
    /\ waiting_for_release = FALSE
    /\ pid = [kp |-> InitPidParams(store, TRUE).kp,
              ki |-> InitPidParams(store, TRUE).ki,
              kd |-> InitPidParams(store, TRUE).kd,
              integral |-> 0, prev_measurement |-> 0, output_percent |-> 0]
    /\ pid_tuned = InitPidParams(store, TRUE).tuned
    /\ nvs = store
    /\ pid_elapsed_ms = 1001
    /\ prev_weight = 0
    /\ flow_elapsed_ms = 1000
    /\ autotune = [active |-> FALSE, peak_times |-> <<>>, peak_values |-> <<>>,
                   relay_state |-> FALSE, last_weight |-> 0,
                   relay_output_high |-> 0, relay_output_low |-> 0,
                   ultimate_gain |-> 0, ultimate_period |-> 0,
                   calculated_kp |-> 0, calculated_ki |-> 0, calculated_kd |-> 0]
    /\ autotune_elapsed_ms = 0
    /\ prev_prev_weight = 0
    /\ dac_value = 0
    /\ control_pc = "run"
    /\ release_seen = FALSE
    /\ stage_age_ms = 0
    /\ confirms = 0
    /\ detents = 0
    /\ stop_ticked = FALSE
    /\ at_ticked = FALSE
    /\ pid_calls = 0
    /\ reset_pressed = FALSE
    /\ scale_fails = 0
    /\ pid_returned = 0
    /\ boots = 0
    /\ tune_ended = FALSE

\* the boot of a controller whose flash holds no PID parameters
Boot(hybrid) == BootFrom(hybrid, NvsEmpty)

(***************************************************************************)
(* Time                                                                    *)
(***************************************************************************)
\* d milliseconds pass between two handler executions.  A clock advances
\* while the program can still read it: the stage timer in a check stage,
\* the auto-tune timer while auto-tune is active.  A step below one second
\* is taken only where the hybrid control law, the one reader of the
\* sub-second clocks (PID, flow), can tell it from a longer one.
Advance(d) ==
    /\ d < 1000 => /\ pid_enabled /\ state = STATE_FILLING /\ ~autotune.active
                   /\ (pid_elapsed_ms <= 1000 \/ flow_elapsed_ms < 1000)
    /\ check_elapsed_ms' = IF safety_state \in SafetyStages
                           THEN Tick(check_elapsed_ms, d, SAFETY_CHECK_TIMEOUT_MS)
                           ELSE check_elapsed_ms
    /\ stage_age_ms' = IF safety_state \in SafetyStages
                       THEN Tick(stage_age_ms, d, SAFETY_CHECK_TIMEOUT_MS)
                       ELSE stage_age_ms
    /\ autotune_elapsed_ms' = IF autotune.active
                              THEN Tick(autotune_elapsed_ms, d, AUTOTUNE_TIMEOUT_MS)
                              ELSE autotune_elapsed_ms
    /\ pid_elapsed_ms' = Tick(pid_elapsed_ms, d, 1000)
    /\ flow_elapsed_ms' = IF flow_elapsed_ms + d >= 1000 THEN 1000
                          ELSE flow_elapsed_ms + d
    /\ UNCHANGED <<gvars, button_last_state, waiting_for_release, pid,
                   prev_weight, autotune, prev_prev_weight, dac_value,
                   control_pc, release_seen,
                   confirms, detents, pid_calls,
                   stop_ticked>>
    /\ UNCHANGED <<at_ticked, nvars, hvars>>

(***************************************************************************)
(* scale_task: one pass of its loop                                        *)
(***************************************************************************)
\* scale_read_weight succeeded with weight w
ScaleRead(w) ==
    /\ current_weight_lbs' = w
    /\ scale_online' = TRUE
    /\ UNCHANGED <<state, safety_state, active_zone, error, target_weight_lbs,
                   start_weight_lbs, pressure_setpoint_pct, fill_number,
                   fills_today, total_lbs_today, zone_transitions, pid_enabled,
                   autotune_state, svars, pvars, avars, dac_value, control_pc,
                   release_seen, stage_age_ms,
                   confirms, detents, pid_calls,
                   stop_ticked>>
    /\ scale_fails' = 0
    /\ UNCHANGED <<at_ticked, nvars, reset_pressed, pid_returned, boots,
                   tune_ended>>

\* scale_read_weight failed
ScaleFail ==
    /\ scale_online' = FALSE
    /\ UNCHANGED <<state, safety_state, active_zone, error, target_weight_lbs,
                   current_weight_lbs, start_weight_lbs, pressure_setpoint_pct,
                   fill_number, fills_today, total_lbs_today, zone_transitions,
                   pid_enabled, autotune_state, svars, pvars, avars, dac_value,
                   control_pc, release_seen,
                   stage_age_ms, confirms, detents, pid_calls,
                   stop_ticked>>
    /\ scale_fails' = IF state # STATE_FILLING THEN 0
                      ELSE IF scale_fails < MaxScaleFails THEN scale_fails + 1
                      ELSE scale_fails
    /\ UNCHANGED <<at_ticked, nvars, reset_pressed, pid_returned, boots,
                   tune_ended>>

(***************************************************************************)
(* control_task: one pass of its loop                                      *)
(***************************************************************************)
\* pressure_controller_set_percent(percent) as the only actuator write of
\* the tick, the PID state being p
SetPercent(p, percent) ==
    LET d == set_dac_output(percent)
    IN  /\ dac_value' = d.dac
        /\ pid' = [p EXCEPT !.output_percent = d.output_percent]

\* the fill completes with the actuator left at its last command
FillComplete_KeepsPressure ==
    /\ fill_number < MaxFills
    /\ state' = STATE_COMPLETED
    /\ fill_number' = fill_number + 1
    /\ fills_today' = fills_today + 1
    /\ total_lbs_today' = total_lbs_today + current_weight_lbs
    /\ UNCHANGED <<safety_state, active_zone, error, target_weight_lbs,
                   current_weight_lbs, start_weight_lbs, pressure_setpoint_pct,
                   zone_transitions, scale_online, pid_enabled, autotune_state,
                   pid, dac_value,
                   pid_elapsed_ms, prev_weight, flow_elapsed_ms, pid_calls,
                   pid_returned>>

\* the completed fill is counted, its weight is not added to the total
FillComplete_NoTotal ==
    /\ fill_number < MaxFills
    /\ SetPercent(pid, 0)
    /\ state' = STATE_COMPLETED
    /\ fill_number' = fill_number + 1
    /\ fills_today' = fills_today + 1
    /\ UNCHANGED <<safety_state, active_zone, error, target_weight_lbs,
                   current_weight_lbs, start_weight_lbs, pressure_setpoint_pct,
                   total_lbs_today,
                   zone_transitions, scale_online, pid_enabled, autotune_state,
                   pid_elapsed_ms, prev_weight, flow_elapsed_ms, pid_calls,
                   pid_returned>>

\* the COMPLETE branch of control_task_fill_logic
FillComplete ==
    /\ fill_number < MaxFills
    /\ SetPercent(pid, 0)
    /\ state' = STATE_COMPLETED
    /\ fill_number' = fill_number + 1
    /\ fills_today' = fills_today + 1
    /\ total_lbs_today' = total_lbs_today + current_weight_lbs
    /\ UNCHANGED <<safety_state, active_zone, error, target_weight_lbs,
                   current_weight_lbs, start_weight_lbs, pressure_setpoint_pct,
                   zone_transitions, scale_online, pid_enabled, autotune_state,
                   pid_elapsed_ms, prev_weight, flow_elapsed_ms, pid_calls,
                   pid_returned>>

\* the zone branches of control_task_fill_logic
FillZone(new_zone) ==
    LET changed       == new_zone # active_zone
        reset         == changed /\ pid_enabled
        p0            == IF reset THEN pressure_controller_reset_pid(pid) ELSE pid
        zone_setpoint == ZoneSetpoint(new_zone)
        dt_ok         == flow_elapsed_ms > 1 /\ flow_elapsed_ms < 1000
    IN
    /\ changed => zone_transitions < MaxZoneTransitions
    /\ zone_transitions' = IF changed THEN zone_transitions + 1 ELSE zone_transitions
    /\ active_zone' = new_zone
    /\ pressure_setpoint_pct' = zone_setpoint
    /\ IF pid_enabled
       THEN /\ IF dt_ok
               THEN \E dt_us \in (IF reset THEN SameTickUs
                                  ELSE {pid_elapsed_ms * 1000}) :
                      LET flow_rate == MulDiv(current_weight_lbs - prev_weight,
                                              1000000, flow_elapsed_ms)
                          r == pressure_controller_compute_pid(
                                   p0, TargetFlow(new_zone), flow_rate, dt_us)
                          o == zone_setpoint + (r.out - zone_setpoint)
                          output == IF o < 0 THEN 0
                                    ELSE IF o > 100000 THEN 100000 ELSE o
                      IN  /\ pid_calls < MaxPidCalls
                          /\ pid_calls' = pid_calls + 1
                          /\ pid_returned' = r.out
                          /\ SetPercent(r.pid, output)
                          /\ pid_elapsed_ms' = 0
               ELSE /\ SetPercent(p0, zone_setpoint)
                    /\ pid_elapsed_ms' = IF reset THEN 0 ELSE pid_elapsed_ms
                    /\ UNCHANGED <<pid_calls, pid_returned>>
            /\ prev_weight' = current_weight_lbs
            /\ flow_elapsed_ms' = 0
       ELSE /\ SetPercent(pid, zone_setpoint)
            /\ UNCHANGED <<pid_elapsed_ms, prev_weight, flow_elapsed_ms, pid_calls,
                           pid_returned>>
    /\ UNCHANGED <<state, safety_state, error, target_weight_lbs,
                   current_weight_lbs, start_weight_lbs, fill_number,
                   fills_today, total_lbs_today, scale_online, pid_enabled,
                   autotune_state>>

\* control_task_fill_logic
control_task_fill_logic ==
    LET z == SelectZone(current_weight_lbs, target_weight_lbs)
    IN  IF z = "COMPLETE" THEN FillComplete ELSE FillZone(z)

\* the auto-tune branch of STATE_FILLING
AutotuneTick ==
    LET r == pressure_controller_run_autotune(autotune, autotune_state,
                 prev_prev_weight, current_weight_lbs, autotune_elapsed_ms)
        finished == r.result \in {ESP_OK, ESP_FAIL}
        request  == IF finished THEN 0 ELSE r.dac
    IN
    /\ autotune' = r.at
    /\ autotune_state' = r.autotune_state
    /\ prev_prev_weight' = r.prev_prev_weight
    /\ target_weight_lbs' = IF r.set_target THEN AUTOTUNE_TARGET_WEIGHT
                            ELSE target_weight_lbs
    /\ error' = IF r.set_error THEN ERROR_AUTOTUNE_TIMEOUT ELSE error
    /\ state' = IF r.result = ESP_OK THEN STATE_IDLE
                ELSE IF r.result = ESP_FAIL THEN STATE_ERROR
                ELSE state
    /\ IF request >= 0
       THEN SetPercent(pid, request)
       ELSE UNCHANGED <<pid, dac_value>>
    /\ UNCHANGED <<safety_state, active_zone, current_weight_lbs,
                   start_weight_lbs, pressure_setpoint_pct, fill_number,
                   fills_today, total_lbs_today, zone_transitions,
                   scale_online, pid_enabled, autotune_elapsed_ms,
                   pid_elapsed_ms, prev_weight, flow_elapsed_ms, pid_calls,
                   pid_returned>>

\* one pass of the loop of control_task, up to its next delay
ControlTick ==
    /\ control_pc = "run"
    /\ CASE state = STATE_IDLE ->
              /\ SetPercent(pid, 0)
              /\ UNCHANGED <<gvars, pid_elapsed_ms, prev_weight, flow_elapsed_ms,
                             avars, control_pc, pid_calls, pid_returned>>
         [] state = STATE_FILLING /\ autotune.active ->
              /\ AutotuneTick
              /\ UNCHANGED control_pc
         [] state = STATE_FILLING /\ ~autotune.active ->
              /\ control_task_fill_logic
              /\ UNCHANGED <<avars, control_pc>>
         [] state = STATE_COMPLETED ->
              /\ control_pc' = "hold"
              /\ UNCHANGED <<gvars, pvars, avars, dac_value, pid_calls,
                             pid_returned>>
         [] state = STATE_ERROR ->
              /\ SetPercent(pid, 0)
              /\ UNCHANGED <<gvars, pid_elapsed_ms, prev_weight, flow_elapsed_ms,
                             avars, control_pc, pid_calls, pid_returned>>
         [] OTHER ->
              UNCHANGED <<gvars, pvars, avars, dac_value, control_pc, pid_calls,
                          pid_returned>>
    /\ UNCHANGED <<svars, release_seen,
                   stage_age_ms, confirms, detents>>
    /\ stop_ticked' = (state \in {STATE_CANCELLED, STATE_ERROR})
    /\ at_ticked' = (autotune.active /\ autotune'.active)
    /\ tune_ended' = (tune_ended \/ (autotune.active /\ ~autotune'.active))
    /\ UNCHANGED <<nvars, reset_pressed, scale_fails, boots>>

\* the 2 s delay is over and the mode is left as it is
ControlHoldDone_StaysCompleted ==
    /\ control_pc = "hold"
    /\ control_pc' = "run"
    /\ UNCHANGED <<gvars, svars, pvars, avars, dac_value, obsvars, at_ticked,
                   nvars, hvars>>

\* STATE_COMPLETED: the 2 s delay is over, the task writes STATE_IDLE
ControlHoldDone ==
    /\ control_pc = "hold"
    /\ control_pc' = "run"
    /\ state' = STATE_IDLE
    /\ UNCHANGED <<safety_state, active_zone, error, target_weight_lbs,
                   current_weight_lbs, start_weight_lbs, pressure_setpoint_pct,
                   fill_number, fills_today, total_lbs_today, zone_transitions,
                   scale_online, pid_enabled, autotune_state, svars, pvars,
                   avars, dac_value, release_seen,
                   stage_age_ms, confirms, detents, pid_calls>>
    /\ stop_ticked' = FALSE
    /\ reset_pressed' = FALSE
    /\ UNCHANGED <<at_ticked, nvars, scale_fails, pid_returned, boots,
                   tune_ended>>

(***************************************************************************)
(* control_task with the completion of a fill taken store by store.  The   *)
(* tasks share g_system_state without a lock and run on both cores: a      *)
(* reader or writer of another task can run between any two stores.        *)
(***************************************************************************)
\* the COMPLETE branch up to its store into state
FillCompleteStore ==
    /\ control_pc = "run"
    /\ fill_number < MaxFills
    /\ SetPercent(pid, 0)
    /\ state' = STATE_COMPLETED
    /\ control_pc' = "fill_number"
    /\ stop_ticked' = FALSE
    /\ UNCHANGED <<safety_state, active_zone, error, target_weight_lbs,
                   current_weight_lbs, start_weight_lbs, pressure_setpoint_pct,
                   fill_number, fills_today, total_lbs_today,
                   zone_transitions, scale_online, pid_enabled, autotune_state,
                   svars, pid_elapsed_ms, prev_weight, flow_elapsed_ms, avars,
                   release_seen, stage_age_ms, confirms, detents, pid_calls>>
    /\ UNCHANGED <<at_ticked, nvars, hvars>>

\* the next store of the COMPLETE branch: fill_number++, fills_today++,
\* total_lbs_today += current_weight_lbs, then the return to the loop
FillCompleteCount ==
    /\ control_pc \in {"fill_number", "fills_today", "total_lbs_today"}
    /\ fill_number' = IF control_pc = "fill_number"
                      THEN fill_number + 1 ELSE fill_number
    /\ fills_today' = IF control_pc = "fills_today"
                      THEN fills_today + 1 ELSE fills_today
    /\ total_lbs_today' = IF control_pc = "total_lbs_today"
                          THEN total_lbs_today + current_weight_lbs
                          ELSE total_lbs_today
    /\ control_pc' = CASE control_pc = "fill_number" -> "fills_today"
                       [] control_pc = "fills_today" -> "total_lbs_today"
                       [] control_pc = "total_lbs_today" -> "run"
    /\ UNCHANGED <<state, safety_state, active_zone, error, target_weight_lbs,
                   current_weight_lbs, start_weight_lbs, pressure_setpoint_pct,
                   zone_transitions, scale_online, pid_enabled, autotune_state,
                   svars, pvars, avars, dac_value, obsvars>>
    /\ UNCHANGED <<at_ticked, nvars, hvars>>

\* one pass of the loop of control_task, the COMPLETE branch ending at its
\* first store
ControlTickRace ==
    IF state = STATE_FILLING /\ ~autotune.active
       /\ SelectZone(current_weight_lbs, target_weight_lbs) = "COMPLETE"
    THEN FillCompleteStore
    ELSE ControlTick

(***************************************************************************)
(* control_task with the read of the mode by its switch and the body of    *)
(* the case taken as two steps: the HTTP server task can run in between.   *)
(***************************************************************************)
\* switch (g_system_state.state): with STATE_FILLING read outside auto-tune
\* the task is about to call control_task_fill_logic; every other case is
\* the whole pass
ControlRead ==
    IF state = STATE_FILLING /\ ~autotune.active
    THEN /\ control_pc = "run"
         /\ control_pc' = "fill"
         /\ UNCHANGED <<gvars, svars, pvars, avars, dac_value, obsvars,
                        at_ticked, nvars, hvars>>
    ELSE ControlTick

\* control_task_fill_logic, called on the mode read earlier, to the end of
\* the pass
ControlFill ==
    /\ control_pc = "fill"
    /\ control_task_fill_logic
    /\ control_pc' = "run"
    /\ UNCHANGED <<svars, avars, release_seen, stage_age_ms, confirms, detents,
                   stop_ticked, at_ticked, nvars, reset_pressed, scale_fails,
                   boots, tune_ended>>

(***************************************************************************)
(* display_task: one pass of its loop, with the button at level b and the  *)
(* encoder reporting delta detents                                         *)
(***************************************************************************)
\* the encoder adjusts the target in every mode
display_handle_encoder_AnyMode(st, target, delta) ==
    IF delta # 0
    THEN LET new_target == target + delta * WEIGHT_INCREMENT_LBS
         IN  IF new_target < MIN_TARGET_WEIGHT_LBS THEN MIN_TARGET_WEIGHT_LBS
             ELSE IF new_target > MAX_TARGET_WEIGHT_LBS THEN MAX_TARGET_WEIGHT_LBS
             ELSE new_target
    ELSE target

\* display_handle_encoder: the new target
display_handle_encoder(st, target, delta) ==
    IF delta # 0 /\ st = STATE_IDLE
    THEN LET new_target == target + delta * WEIGHT_INCREMENT_LBS
         IN  IF new_target < MIN_TARGET_WEIGHT_LBS THEN MIN_TARGET_WEIGHT_LBS
             ELSE IF new_target > MAX_TARGET_WEIGHT_LBS THEN MAX_TARGET_WEIGHT_LBS
             ELSE new_target
    ELSE target

\* the safety part of the loop body: state is STATE_SAFETY_CHECK
DisplaySafety(b) ==
    LET r == safety_run_checks(safety_state, check_elapsed_ms,
                               button_last_state, waiting_for_release, b)
        entered == r.safety_state # safety_state
    IN
    /\ safety_state' = r.safety_state
    /\ check_elapsed_ms' = r.check_elapsed_ms
    /\ button_last_state' = r.lastb
    /\ waiting_for_release' = r.waiting
    /\ error' = IF r.set_error THEN ERROR_SAFETY_TIMEOUT ELSE error
    /\ state' = IF r.result = ESP_OK THEN STATE_FILLING
                ELSE IF r.result = ESP_FAIL THEN STATE_CANCELLED
                ELSE state
    /\ release_seen' = IF entered THEN FALSE
                       ELSE IF safety_state \in SafetyStages /\ ~b THEN TRUE
                       ELSE release_seen
    /\ stage_age_ms' = IF entered /\ r.safety_state \in SafetyStages
                       THEN 0 ELSE stage_age_ms
    /\ confirms' = IF r.pressed THEN confirms + 1 ELSE confirms
    /\ stop_ticked' = FALSE

DisplayTick(b, delta) ==
    /\ IF state = STATE_SAFETY_CHECK
       THEN /\ DisplaySafety(b)
            /\ delta = 0
            /\ UNCHANGED <<target_weight_lbs, detents>>
       ELSE /\ b => state \in {STATE_CANCELLED, STATE_ERROR}
            /\ (delta # 0 /\ state = STATE_IDLE) => detents < MaxDetents
            /\ target_weight_lbs' =
                   display_handle_encoder(state, target_weight_lbs, delta)
            /\ detents' = IF delta # 0 /\ state = STATE_IDLE
                          THEN detents + 1 ELSE detents
            /\ UNCHANGED <<state, safety_state, error, svars, release_seen,
                           stage_age_ms, confirms, stop_ticked>>
    /\ UNCHANGED <<active_zone, current_weight_lbs, start_weight_lbs,
                   pressure_setpoint_pct, fill_number, fills_today,
                   total_lbs_today, zone_transitions, scale_online,
                   pid_enabled, autotune_state, pvars, avars, dac_value,
                   control_pc, pid_calls>>
    /\ reset_pressed' = IF state \in {STATE_CANCELLED, STATE_ERROR}
                        THEN reset_pressed \/ b ELSE reset_pressed
    /\ UNCHANGED <<at_ticked, nvars, scale_fails, pid_returned, boots,
                   tune_ended>>

(***************************************************************************)
(* HTTP command port                                                       *)
(***************************************************************************)
\* a start is also accepted after a stop
api_start_fill_handler_FromStopped(st) ==
    IF st \in {STATE_IDLE, STATE_CANCELLED}
    THEN [state |-> STATE_SAFETY_CHECK, status |-> "success"]
    ELSE [state |-> st, status |-> "error"]

\* api_start_fill_handler: the new state and the response
api_start_fill_handler(st) ==
    IF st = STATE_IDLE
    THEN [state |-> STATE_SAFETY_CHECK, status |-> "success"]
    ELSE [state |-> st, status |-> "error"]

\* only a running sequence or fill is stopped
api_stop_fill_handler_OnlyActive(st) ==
    IF st \in {STATE_SAFETY_CHECK, STATE_FILLING}
    THEN [state |-> STATE_CANCELLED, status |-> "success"]
    ELSE [state |-> st, status |-> "error"]

\* api_stop_fill_handler: the new state and the response
api_stop_fill_handler(st) ==
    IF st # STATE_IDLE
    THEN [state |-> STATE_CANCELLED, status |-> "success"]
    ELSE [state |-> st, status |-> "error"]

\* the upper limit of the target is not tested
api_set_target_handler_NoUpperLimit(target, new_target) ==
    IF new_target >= 10
    THEN [target |-> new_target, status |-> "success"]
    ELSE [target |-> target, status |-> "error"]

\* api_set_target_handler with a numeric target: the new target and the response
api_set_target_handler(target, new_target) ==
    IF new_target >= 10 /\ new_target <= 250
    THEN [target |-> new_target, status |-> "success"]
    ELSE [target |-> target, status |-> "error"]

ApiStart ==
    LET r == api_start_fill_handler(state)
    IN  /\ state' = r.state
        /\ confirms' = IF state = STATE_IDLE THEN 0 ELSE confirms
        /\ UNCHANGED <<safety_state, active_zone, error, target_weight_lbs,
                       current_weight_lbs, start_weight_lbs,
                       pressure_setpoint_pct, fill_number, fills_today,
                       total_lbs_today, zone_transitions, scale_online,
                       pid_enabled, autotune_state, svars, pvars, avars,
                       dac_value, control_pc, release_seen,
                       stage_age_ms, detents, pid_calls>>
        /\ stop_ticked' = IF r.state # state THEN FALSE ELSE stop_ticked
        /\ tune_ended' = IF r.state # state THEN FALSE ELSE tune_ended
        /\ UNCHANGED <<at_ticked, nvars, reset_pressed, scale_fails,
                       pid_returned, boots>>

ApiStop ==
    LET r == api_stop_fill_handler(state)
    IN  /\ state' = r.state
        /\ UNCHANGED <<safety_state, active_zone, error, target_weight_lbs,
                       current_weight_lbs, start_weight_lbs,
                       pressure_setpoint_pct, fill_number, fills_today,
                       total_lbs_today, zone_transitions, scale_online,
                       pid_enabled, autotune_state, svars, pvars, avars,
                       dac_value, control_pc, release_seen,
                       stage_age_ms, confirms, detents, pid_calls>>
        /\ stop_ticked' = IF r.state # state THEN FALSE ELSE stop_ticked
        /\ UNCHANGED <<at_ticked, nvars, hvars>>

ApiSetTarget(t) ==
    LET r == api_set_target_handler(target_weight_lbs, t)
    IN  /\ target_weight_lbs' = r.target
        /\ UNCHANGED <<state, safety_state, active_zone, error,
                       current_weight_lbs, start_weight_lbs,
                       pressure_setpoint_pct, fill_number, fills_today,
                       total_lbs_today, zone_transitions, scale_online,
                       pid_enabled, autotune_state, svars, pvars, avars,
                       dac_value, control_pc, release_seen,
                       stage_age_ms, confirms, detents, pid_calls,
                   stop_ticked>>
        /\ UNCHANGED <<at_ticked, nvars, hvars>>

(***************************************************************************)
(* Entry points of the components that no task of main.c calls: the menu   *)
(* and command layer above them                                            *)
(***************************************************************************)
\* safety_cancel (check_start_time_us = 0: the stage timer reads the uptime,
\* here the stopped clock; no stage follows SAFETY_CANCELLED)
SafetyCancel ==
    /\ safety_state' = SAFETY_CANCELLED
    /\ check_elapsed_ms' = SAFETY_CHECK_TIMEOUT_MS + 1
    /\ UNCHANGED <<state, active_zone, error, target_weight_lbs,
                   current_weight_lbs, start_weight_lbs, pressure_setpoint_pct,
                   fill_number, fills_today, total_lbs_today, zone_transitions,
                   scale_online, pid_enabled, autotune_state,
                   button_last_state, waiting_for_release, pvars, avars,
                   dac_value, control_pc, release_seen,
                   stage_age_ms, confirms, detents, pid_calls, stop_ticked>>
    /\ UNCHANGED <<at_ticked, nvars, hvars>>

\* pressure_controller_start_autotune
StartAutotune ==
    /\ autotune' = [active |-> TRUE, peak_times |-> <<>>, peak_values |-> <<>>,
                    relay_state |-> TRUE, last_weight |-> 0,
                    relay_output_high |-> AUTOTUNE_PRESSURE_CENTER + AUTOTUNE_STEP_PERCENT,
                    relay_output_low  |-> AUTOTUNE_PRESSURE_CENTER - AUTOTUNE_STEP_PERCENT,
                    ultimate_gain |-> 0, ultimate_period |-> 0,
                    calculated_kp |-> 0, calculated_ki |-> 0, calculated_kd |-> 0]
    /\ autotune_elapsed_ms' = 0
    /\ autotune_state' = AUTOTUNE_INIT
    /\ pid' = pressure_controller_reset_pid(pid)
    /\ pid_elapsed_ms' = 0
    /\ UNCHANGED <<state, safety_state, active_zone, error, target_weight_lbs,
                   current_weight_lbs, start_weight_lbs, pressure_setpoint_pct,
                   fill_number, fills_today, total_lbs_today, zone_transitions,
                   scale_online, pid_enabled, svars, prev_weight,
                   flow_elapsed_ms, prev_prev_weight, dac_value, control_pc,
                   release_seen, stage_age_ms,
                   confirms, detents, pid_calls,
                   stop_ticked>>
    /\ at_ticked' = FALSE
    /\ tune_ended' = FALSE
    /\ UNCHANGED <<nvars, reset_pressed, scale_fails, pid_returned, boots>>

\* the cancel leaves the actuator at its last command
CancelAutotune_KeepsOutput ==
    /\ autotune' = [autotune EXCEPT !.active = FALSE]
    /\ autotune_state' = AUTOTUNE_CANCELLED
    /\ at_ticked' = FALSE
    /\ UNCHANGED <<state, safety_state, active_zone, error, target_weight_lbs,
                   current_weight_lbs, start_weight_lbs, pressure_setpoint_pct,
                   fill_number, fills_today, total_lbs_today, zone_transitions,
                   scale_online, pid_enabled, svars, pvars, autotune_elapsed_ms,
                   prev_prev_weight, dac_value, control_pc, obsvars, nvars,
                   reset_pressed, scale_fails, pid_returned, boots>>
    /\ tune_ended' = (tune_ended \/ autotune.active)

\* pressure_controller_cancel_autotune
CancelAutotune ==
    /\ autotune' = [autotune EXCEPT !.active = FALSE]
    /\ autotune_state' = AUTOTUNE_CANCELLED
    /\ SetPercent(pid, 0)
    /\ UNCHANGED <<state, safety_state, active_zone, error, target_weight_lbs,
                   current_weight_lbs, start_weight_lbs, pressure_setpoint_pct,
                   fill_number, fills_today, total_lbs_today, zone_transitions,
                   scale_online, pid_enabled, svars, pid_elapsed_ms,
                   prev_weight, flow_elapsed_ms, autotune_elapsed_ms,
                   prev_prev_weight, control_pc, release_seen,
                   stage_age_ms, confirms, detents, pid_calls, stop_ticked>>
    /\ at_ticked' = FALSE
    /\ tune_ended' = (tune_ended \/ autotune.active)
    /\ UNCHANGED <<nvars, reset_pressed, scale_fails, pid_returned, boots>>

\* pressure_controller_set_pid_params
SetPidParams(kp, ki, kd) ==
    /\ pid' = [pid EXCEPT !.kp = kp, !.ki = ki, !.kd = kd]
    /\ UNCHANGED <<gvars, svars, pid_elapsed_ms, prev_weight, flow_elapsed_ms,
                   avars, dac_value, control_pc, obsvars, at_ticked, nvars,
                   hvars>>

\* pressure_controller_save_pid_params, every NVS call succeeding
SavePidParams ==
    /\ nvs' = [present |-> TRUE, kp |-> pid.kp, ki |-> pid.ki, kd |-> pid.kd,
               tuned |-> IF pid_tuned THEN 1 ELSE 0]
    /\ UNCHANGED <<gvars, svars, pvars, avars, dac_value, control_pc, obsvars,
                   at_ticked, pid_tuned, hvars>>

\* the relay test has produced gains that are numbers: an amplitude and a
\* period above zero
TuneUsable(at) ==
    /\ Len(at.peak_values) >= 2
    /\ MaxAmplitude(at.peak_values, 1) > 0
    /\ SumDiffs(at.peak_times, 1) >= Len(at.peak_times) - 1

\* the operator commits the gains of a completed auto-tune
CommitTuned ==
    /\ autotune_state = AUTOTUNE_COMPLETE
    /\ TuneUsable(autotune)
    /\ SetPidParams(autotune.calculated_kp, autotune.calculated_ki,
                    autotune.calculated_kd)

(***************************************************************************)
(* Calls of the PID engine, and restart                                    *)
(***************************************************************************)
\* pressure_controller_compute_pid(setpoint, measurement), called dt_us
\* microseconds after the previous call of the PID
PidCall(setpoint, measurement, dt_us) ==
    LET r == pressure_controller_compute_pid(pid, setpoint, measurement, dt_us)
    IN  /\ pid_calls < MaxPidCalls
        /\ pid_calls' = pid_calls + 1
        /\ pid' = r.pid
        /\ pid_returned' = r.out
        /\ pid_elapsed_ms' = 0
        /\ UNCHANGED <<gvars, svars, prev_weight, flow_elapsed_ms, avars,
                       dac_value, control_pc, release_seen, stage_age_ms,
                       confirms, detents, stop_ticked, at_ticked, nvars,
                       reset_pressed, scale_fails, boots, tune_ended>>

\* pressure_controller_set_hybrid(zone_setpoint, current_pressure), called
\* dt_us microseconds after the previous call of the PID
SetHybrid(zone_setpoint, current_pressure, dt_us) ==
    LET r == pressure_controller_set_hybrid(pid, active_zone, zone_setpoint,
                                            current_pressure, dt_us)
    IN  /\ pid_calls < MaxPidCalls
        /\ pid_calls' = pid_calls + 1
        /\ SetPercent(r.pid, r.percent)
        /\ pid_elapsed_ms' = 0
        /\ UNCHANGED <<gvars, svars, prev_weight, flow_elapsed_ms, avars,
                       control_pc, release_seen, stage_age_ms,
                       confirms, detents, stop_ticked, at_ticked, nvars,
                       hvars>>

\* the controller restarts: app_main runs again on the parameter store as
\* it is, the reads of the store succeeding (ok) or failing
Reboot(ok) ==
    /\ state' = STATE_IDLE
    /\ safety_state' = SAFETY_IDLE
    /\ active_zone' = ZONE_IDLE
    /\ error' = ERROR_NONE
    /\ target_weight_lbs' = DEFAULT_TARGET_WEIGHT_LBS
    /\ current_weight_lbs' = 0
    /\ start_weight_lbs' = 0
    /\ pressure_setpoint_pct' = 0
    /\ fill_number' = 0
    /\ fills_today' = 0
    /\ total_lbs_today' = 0
    /\ zone_transitions' = 0
    /\ scale_online' = FALSE
    /\ pid_enabled' = pid_enabled
    /\ autotune_state' = AUTOTUNE_IDLE
    /\ check_elapsed_ms' = 0
    /\ button_last_state' = FALSE
    /\ waiting_for_release' = FALSE
    /\ pid' = [kp |-> InitPidParams(nvs, ok).kp,
              ki |-> InitPidParams(nvs, ok).ki,
              kd |-> InitPidParams(nvs, ok).kd,
              integral |-> 0, prev_measurement |-> 0, output_percent |-> 0]
    /\ pid_tuned' = InitPidParams(nvs, ok).tuned
    /\ nvs' = nvs
    /\ pid_elapsed_ms' = 1001
    /\ prev_weight' = 0
    /\ flow_elapsed_ms' = 1000
    /\ autotune' = [active |-> FALSE, peak_times |-> <<>>, peak_values |-> <<>>,
                   relay_state |-> FALSE, last_weight |-> 0,
                   relay_output_high |-> 0, relay_output_low |-> 0,
                   ultimate_gain |-> 0, ultimate_period |-> 0,
                   calculated_kp |-> 0, calculated_ki |-> 0, calculated_kd |-> 0]
    /\ autotune_elapsed_ms' = 0
    /\ prev_prev_weight' = 0
    /\ dac_value' = 0
    /\ control_pc' = "run"
    /\ release_seen' = FALSE
    /\ stage_age_ms' = 0
    /\ confirms' = 0
    /\ detents' = 0
    /\ stop_ticked' = FALSE
    /\ at_ticked' = FALSE
    /\ pid_calls' = 0
    /\ reset_pressed' = FALSE
    /\ scale_fails' = 0
    /\ pid_returned' = 0
    /\ boots < MaxBoots
    /\ boots' = boots + 1
    /\ tune_ended' = FALSE

(***************************************************************************)
(* Specifications                                                          *)
(***************************************************************************)
\* the firmware as main.c wires it, with its operator and HTTP inputs
Next ==
    \/ \E d \in TimeSteps : Advance(d)
    \/ \E w \in Weights : ScaleRead(w)
    \/ scale_online /\ ScaleFail
    \/ ControlTick
    \/ ControlHoldDone
    \/ \E b \in BOOLEAN, delta \in {-1, 0, 1} :
          (b => state = STATE_SAFETY_CHECK) /\ DisplayTick(b, delta)
    \/ ApiStart
    \/ ApiStop
    \/ \E t \in Targets : ApiSetTarget(t)

\* pressure_controller_init leaves hybrid control off
Init == Boot(FALSE)

Spec == Init /\ [][Next]_vars

\* the firmware with the entry points of its components that no task calls
NextApi ==
    \/ \E d \in ApiTimeSteps : Advance(d)
    \/ \E w \in ApiWeights : ScaleRead(w)
    \/ ControlTick
    \/ ControlHoldDone
    \/ \E b \in BOOLEAN : (b => state = STATE_SAFETY_CHECK) /\ DisplayTick(b, 0)
    \/ ApiStart
    \/ ApiStop
    \/ SafetyCancel
    \/ ~pid_enabled /\ StartAutotune
    \/ CancelAutotune

\* hybrid control is on or off for the whole run; auto-tune is started
\* from zone control
InitApi == \E hybrid \in BOOLEAN : Boot(hybrid)

SpecApi == InitApi /\ [][NextApi]_vars

\* the wired firmware with the stores of the completion interleaved with
\* the other tasks
NextRace ==
    \/ \E d \in TimeSteps : Advance(d)
    \/ \E w \in Weights : ScaleRead(w)
    \/ ControlTickRace
    \/ FillCompleteCount
    \/ ControlHoldDone
    \/ \E b \in BOOLEAN : (b => state = STATE_SAFETY_CHECK) /\ DisplayTick(b, 0)
    \/ ApiStart
    \/ ApiStop

SpecRace == Init /\ [][NextRace]_vars

\* one auto-tune, started during a fill under zone control and followed
\* through its relay test, with the parameter store and the operator's
\* commit and save of the result
NextTune ==
    \/ \E d \in TuneTimeSteps :
          /\ d < AUTOTUNE_TIMEOUT_MS
                => autotune.active /\ autotune_elapsed_ms < MaxTuneMs
          /\ Advance(d)
    \/ \E w \in TuneWeights : ScaleRead(w)
    \/ ControlTick
    \/ \E b \in BOOLEAN : DisplayTick(b, 0)
    \/ ApiStart
    \/ state = STATE_FILLING /\ autotune_state = AUTOTUNE_IDLE /\ StartAutotune
    \/ autotune.active /\ CancelAutotune
    \/ CommitTuned
    \/ autotune_state = AUTOTUNE_COMPLETE /\ SavePidParams

\* the flash holds no parameters, or those of an earlier tuning
InitTune == \E store \in {NvsEmpty, NvsTuned} : BootFrom(FALSE, store)

SpecTune == InitTune /\ [][NextTune]_vars

\* fills under zone control with the weight and the target on and around
\* the zone thresholds
NextZone ==
    \/ \E w \in ZoneWeights : ScaleRead(w)
    \/ \E t \in ZoneTargets : ApiSetTarget(t)
    \/ \E b \in BOOLEAN : (b => state = STATE_SAFETY_CHECK) /\ DisplayTick(b, 0)
    \/ ApiStart
    \/ ControlTick

SpecZone == Init /\ [][NextZone]_vars

\* a fill under zone control during which the reads of the scale fail
NextScale ==
    \/ \E w \in ApiWeights : ScaleRead(w)
    \/ ScaleFail
    \/ ControlTick
    \/ ControlHoldDone
    \/ \E b \in BOOLEAN : (b => state = STATE_SAFETY_CHECK) /\ DisplayTick(b, 0)
    \/ ApiStart

SpecScale == Init /\ [][NextScale]_vars

\* the calls of the PID engine, alone and through
\* pressure_controller_set_hybrid, before and during a fill under zone
\* control
NextPid ==
    \/ \E a \in PidArgs : PidCall(a[1], a[2], a[3])
    \/ \E a \in PidArgs : SetHybrid(a[1], a[2], a[3])
    \/ \E w \in PidWeights : ScaleRead(w)
    \/ ControlTick
    \/ \E b \in BOOLEAN : (b => state = STATE_SAFETY_CHECK) /\ DisplayTick(b, 0)
    \/ ApiStart

SpecPid == Init /\ [][NextPid]_vars

\* the PID parameters set, saved and loaded again at a restart
NextStore ==
    \/ \E g \in StoreGains : SetPidParams(g[1], g[2], g[3])
    \/ SavePidParams
    \/ \E ok \in BOOLEAN : Reboot(ok)

SpecStore == InitTune /\ [][NextStore]_vars

\* the wired firmware with the HTTP handlers running between the read of
\* the mode by control_task and the fill logic that follows it
NextStop ==
    \/ \E w \in Weights : ScaleRead(w)
    \/ ControlRead
    \/ ControlFill
    \/ ControlHoldDone
    \/ \E b \in BOOLEAN : (b => state = STATE_SAFETY_CHECK) /\ DisplayTick(b, 0)
    \/ ApiStart
    \/ ApiStop

SpecStop == Init /\ [][NextStop]_vars

\* a fill of the wired firmware that is not stopped: the operator presses
\* and releases the button and lets no stage time out, the drum does not
\* lose weight while it is filled, fills are started while fewer than
\* MaxFills are counted
OperatorPress == state = STATE_SAFETY_CHECK /\ DisplayTick(TRUE, 0)

OperatorRelease == DisplayTick(FALSE, 0)

LiveScale(w) ==
    /\ state = STATE_FILLING => w >= current_weight_lbs
    /\ ScaleRead(w)

ScaleReachesTarget ==
    /\ state = STATE_FILLING
    /\ \E w \in Weights : w >= target_weight_lbs /\ ScaleRead(w)

LiveAdvance(d) ==
    /\ safety_state \in SafetyStages
          => check_elapsed_ms + d <= SAFETY_CHECK_TIMEOUT_MS
    /\ Advance(d)

NextLive ==
    \/ \E d \in TimeSteps : LiveAdvance(d)
    \/ \E w \in Weights : LiveScale(w)
    \/ ControlTick
    \/ ControlHoldDone
    \/ OperatorPress
    \/ OperatorRelease
    \/ fill_number < MaxFills /\ ApiStart

\* control_task and display_task are periodic loops that are never blocked
\* for good: each of their passes that would change the state is taken in
\* the end; so are, by the conditions of the run, a press and a release of
\* the button and a weight at or above the target
SpecLive ==
    /\ Init
    /\ [][NextLive]_vars
    /\ WF_vars(ControlTick)
    /\ WF_vars(ControlHoldDone)
    /\ WF_vars(OperatorPress)
    /\ WF_vars(OperatorRelease)
    /\ WF_vars(ScaleReachesTarget)

\* the Calculating phase on the peaks of a relay test: the state in which
\* the Control tick that recorded the fourth peak has left the controller
\* (auto-tune started at the begin of a fill, weight now 6 lbs), then the
\* tick that calculates and the operator's commit of the result
InitCalc ==
    \E times \in CalcPeakTimes, values \in CalcPeakValues :
       /\ state = STATE_FILLING
       /\ safety_state = SAFETY_COMPLETE
       /\ active_zone = ZONE_IDLE
       /\ error = ERROR_NONE
       /\ target_weight_lbs = AUTOTUNE_TARGET_WEIGHT
       /\ current_weight_lbs = 6
       /\ start_weight_lbs = 0
       /\ pressure_setpoint_pct = 0
       /\ fill_number = 0
       /\ fills_today = 0
       /\ total_lbs_today = 0
       /\ zone_transitions = 0
       /\ scale_online = TRUE
       /\ pid_enabled = FALSE
       /\ autotune_state = AUTOTUNE_CALCULATING
       /\ check_elapsed_ms = 0
       /\ button_last_state = TRUE
       /\ waiting_for_release = TRUE
       /\ pid = [kp |-> DEFAULT_PID_KP, ki |-> DEFAULT_PID_KI, kd |-> DEFAULT_PID_KD,
                 integral |-> 0, prev_measurement |-> 0, output_percent |-> 0]
       /\ pid_tuned = FALSE
       /\ nvs = NvsEmpty
       /\ pid_elapsed_ms = 1001
       /\ prev_weight = 0
       /\ flow_elapsed_ms = 1000
       /\ autotune = [active |-> TRUE, peak_times |-> times, peak_values |-> values,
                      relay_state |-> TRUE, last_weight |-> 6,
                      relay_output_high |-> AUTOTUNE_PRESSURE_CENTER + AUTOTUNE_STEP_PERCENT,
                      relay_output_low  |-> AUTOTUNE_PRESSURE_CENTER - AUTOTUNE_STEP_PERCENT,
                      ultimate_gain |-> 0, ultimate_period |-> 0,
                      calculated_kp |-> 0, calculated_ki |-> 0, calculated_kd |-> 0]
       /\ autotune_elapsed_ms = times[4]
       /\ prev_prev_weight = values[4]
       /\ dac_value = 0
       /\ control_pc = "run"
       /\ release_seen = FALSE
       /\ stage_age_ms = 0
       /\ confirms = 4
       /\ detents = 0
       /\ stop_ticked = FALSE
       /\ at_ticked = TRUE
       /\ pid_calls = 0
       /\ reset_pressed = FALSE
       /\ scale_fails = 0
       /\ pid_returned = 0
       /\ boots = 0
       /\ tune_ended = FALSE

NextCalc ==
    \/ ControlTick
    \/ CommitTuned

SpecCalc == InitCalc /\ [][NextCalc]_vars

(***************************************************************************)
(* Properties                                                              *)
(***************************************************************************)
\* one pass of the loop of display_task, whatever the button and encoder do
OperatorTick == \E b \in BOOLEAN, delta \in {-1, 0, 1} : DisplayTick(b, delta)

\* the safety phase moves forward from a check stage
StageAdvance ==
    /\ safety_state \in SafetyStages
    /\ safety_state' \in SAFETY_HOSE_CHECK .. SAFETY_COMPLETE
    /\ safety_state' # safety_state

\* C1: every entry of the mode into Filling follows four accepted confirm
\* presses made since the latest Idle -> SafetyCheck transition, the phase
\* having reached Complete through them; also for the second and later fills.
C1_FourConfirmsBeforeFilling ==
    [][(state # STATE_FILLING /\ state' = STATE_FILLING)
          => (confirms' = 4 /\ safety_state' = SAFETY_COMPLETE)]_vars

\* C2: once a whole Control tick has run with the mode Cancelled or Error,
\* the actuator command is 0 %, and it stays 0 % while that mode lasts.
C2_StoppedMeansZero ==
    (state \in {STATE_CANCELLED, STATE_ERROR} /\ stop_ticked)
        => (dac_value = 0 /\ pid.output_percent = 0)

\* C3: in every reachable state the commanded percentage is within [0, 100]
\* and the DAC code within its 8 bits, under zone control, hybrid control,
\* the auto-tune relay, cancels and timeouts.
C3_CommandInRange ==
    /\ pid.output_percent \in 0 .. 100000
    /\ dac_value \in 0 .. DAC_MAX_VALUE

\* the hybrid control law has driven the command to the upper limit
C3_HybridSaturates ==
    /\ state = STATE_FILLING
    /\ pid_enabled
    /\ pid_calls > 0
    /\ pid.output_percent = PID_OUTPUT_MAX

\* C4: a Control tick in Filling that finds the weight above 1.02 times the
\* target commands 0 %, sets the mode to Error and the error to Overfill.
C4_OverfillStops ==
    [][(ControlTick /\ state = STATE_FILLING
            /\ current_weight_lbs * 100 > 102 * target_weight_lbs)
          => (state' = STATE_ERROR /\ error' = ERROR_OVERFILL
                /\ dac_value' = 0)]_vars

\* C5: an Operator tick of the safety sequence that finds a check stage
\* active for more than 30 s, counted from the moment that stage was
\* entered, moves the phase to Timeout, sets the error to SafetyTimeout and
\* the mode to Cancelled with the actuator at 0 %; the phase becomes Timeout
\* in no other way.
C5_StageTimeout ==
    [][/\ (OperatorTick /\ state = STATE_SAFETY_CHECK
              /\ safety_state \in SafetyStages
              /\ stage_age_ms > SAFETY_CHECK_TIMEOUT_MS)
          => (safety_state' = SAFETY_TIMEOUT
                /\ error' = ERROR_SAFETY_TIMEOUT
                /\ state' = STATE_CANCELLED
                /\ dac_value' = 0 /\ pid'.output_percent = 0)
       /\ (safety_state' = SAFETY_TIMEOUT /\ safety_state # SAFETY_TIMEOUT)
          => (state = STATE_SAFETY_CHECK /\ safety_state \in SafetyStages
                /\ stage_age_ms > SAFETY_CHECK_TIMEOUT_MS)]_vars

\* the third stage timed out after two confirmed stages
C5_ThirdStageTimedOut ==
    /\ safety_state = SAFETY_TIMEOUT
    /\ confirms = 2
    /\ stage_age_ms > SAFETY_CHECK_TIMEOUT_MS
    /\ error = ERROR_SAFETY_TIMEOUT
    /\ state = STATE_CANCELLED
    /\ dac_value = 0

\* C6: the phase advances from a stage only on a tick that reads the button
\* down after a tick of the same stage read it up: every advance takes a
\* press of its own, and a button held across a stage change or held when a
\* stage starts does not advance the new stage.
C6_PressAfterRelease ==
    [][StageAdvance
          => (release_seen /\ ~button_last_state /\ button_last_state'
                /\ confirms' = confirms + 1)]_vars

\* the button, held since the press that confirmed the first stage, has
\* not advanced the second stage
C6_HeldButtonWaits ==
    /\ state = STATE_SAFETY_CHECK
    /\ safety_state = SAFETY_HOSE_CHECK
    /\ confirms = 1
    /\ button_last_state
    /\ ~release_seen
    /\ stage_age_ms > 0

\* C7: every change of the safety phase either enters Timeout or Cancelled
\* or moves one place forward in Idle, AirCheck, HoseCheck, PositionCheck,
\* StartCheck, Complete.
C7_SafetyMonotonic ==
    [][safety_state' # safety_state
          => \/ safety_state' \in {SAFETY_TIMEOUT, SAFETY_CANCELLED}
             \/ /\ safety_state \in SAFETY_IDLE .. SAFETY_START_CHECK
                /\ safety_state' = safety_state + 1]_vars

\* safety_cancel was called in the third stage
C7_CancelledMidSequence ==
    /\ safety_state = SAFETY_CANCELLED
    /\ confirms = 2
    /\ state = STATE_SAFETY_CHECK

\* C8: safety_cancel sets the phase to Cancelled whatever it was; the phase
\* then stays Cancelled, the next Operator tick of the safety sequence sets
\* the mode to Cancelled, and the mode does not enter Filling.
C8_CancelIsFinal ==
    [][/\ SafetyCancel => safety_state' = SAFETY_CANCELLED
       /\ safety_state = SAFETY_CANCELLED
          => /\ safety_state' = SAFETY_CANCELLED
             /\ (OperatorTick /\ state = STATE_SAFETY_CHECK)
                    => (state' = STATE_CANCELLED /\ dac_value' = 0)
             /\ state # STATE_FILLING => state' # STATE_FILLING]_vars

\* a sequence cancelled in its last stage has ended in the mode Cancelled
C8_CancelledByTick ==
    /\ safety_state = SAFETY_CANCELLED
    /\ confirms = 3
    /\ state = STATE_CANCELLED
    /\ error = ERROR_NONE

\* C9: POST /start answers success and sets the mode to SafetyCheck when
\* the mode is Idle, answers an error and changes nothing in every other
\* mode; the mode becomes SafetyCheck in no other way.
C9_StartOnlyFromIdle ==
    /\ [](api_start_fill_handler(state) =
              IF state = STATE_IDLE
              THEN [state |-> STATE_SAFETY_CHECK, status |-> "success"]
              ELSE [state |-> state, status |-> "error"])
    /\ [][/\ ApiStart
             => IF state = STATE_IDLE
                THEN state' = STATE_SAFETY_CHECK
                     /\ UNCHANGED <<safety_state, active_zone, error,
                                    target_weight_lbs, fill_number, fills_today,
                                    total_lbs_today, zone_transitions, pid,
                                    dac_value>>
                ELSE UNCHANGED <<gvars, svars, pvars, avars, dac_value,
                                 control_pc>>
          /\ (state' = STATE_SAFETY_CHECK /\ state # STATE_SAFETY_CHECK)
             => state = STATE_IDLE]_vars

\* a start was accepted and no Operator tick has run since
C9_StartAccepted ==
    /\ state = STATE_SAFETY_CHECK
    /\ safety_state = SAFETY_IDLE
    /\ confirms = 0

\* C10: POST /stop answers success and sets the mode to Cancelled in every
\* mode but Idle; in Idle it answers an error and changes nothing.
C10_StopFromNonIdle ==
    /\ [](api_stop_fill_handler(state) =
              IF state # STATE_IDLE
              THEN [state |-> STATE_CANCELLED, status |-> "success"]
              ELSE [state |-> state, status |-> "error"])
    /\ [][ApiStop
             => IF state # STATE_IDLE
                THEN state' = STATE_CANCELLED
                ELSE UNCHANGED <<gvars, svars, pvars, avars, dac_value,
                                 control_pc>>]_vars

\* a stop was accepted in Completed, inside the hold of control_task
C10_StoppedInHold ==
    /\ state = STATE_CANCELLED
    /\ control_pc = "hold"
    /\ fill_number = 1

\* C11: POST /set_target answers an error and keeps the target for every
\* requested value outside [10, 250] (5 and 300 among them, and the values
\* next to the limits), accepts every value inside, and the target is
\* within [10, 250] in every reachable state.
C11_TargetInRange ==
    /\ target_weight_lbs \in MIN_TARGET_WEIGHT_LBS .. MAX_TARGET_WEIGHT_LBS
    /\ \A t \in {0, 5, 9, 10, 11, 200, 249, 250, 251, 300} :
          api_set_target_handler(target_weight_lbs, t) =
              IF t < 10 \/ t > 250
              THEN [target |-> target_weight_lbs, status |-> "error"]
              ELSE [target |-> t, status |-> "success"]
    /\ \A t \in Targets :
          (t < 10 \/ t > 250) =>
              api_set_target_handler(target_weight_lbs, t).target
                  = target_weight_lbs

\* a request has set the target to the upper limit; the encoder was not used
C11_TargetSetByRequest ==
    /\ target_weight_lbs = MAX_TARGET_WEIGHT_LBS
    /\ detents = 0
    /\ autotune_state = AUTOTUNE_IDLE

\* C12: the target changes only in steps taken in the mode Idle: no request,
\* encoder detent or auto-tune step changes it in another mode.
C12_TargetOnlyInIdle ==
    [][target_weight_lbs' # target_weight_lbs => state = STATE_IDLE]_vars

\* C13: under zone control (pid_enabled false) every Control tick in
\* Filling with progress p = 100 * current / target below 100 leaves the
\* command at the base percent of the zone of p (Fast 33 below 60, Moderate
\* 66 below 85, Slow 100 below 97.5, Fine 83 below 100) and the mode
\* Filling; a tick with p >= 100 commands 0 and sets the mode to Completed.
C13_ZoneCommand ==
    [][(ControlTick /\ state = STATE_FILLING /\ ~pid_enabled
            /\ ~autotune.active)
          => LET w == current_weight_lbs * 1000
                 t == target_weight_lbs
             IN  IF w < 1000 * t
                 THEN /\ state' = STATE_FILLING
                      /\ active_zone' =
                             (IF w < 600 * t THEN ZONE_FAST
                              ELSE IF w < 850 * t THEN ZONE_MODERATE
                              ELSE IF w < 975 * t THEN ZONE_SLOW
                              ELSE ZONE_FINE)
                      /\ pid'.output_percent =
                             (IF w < 600 * t THEN 33000
                              ELSE IF w < 850 * t THEN 66000
                              ELSE IF w < 975 * t THEN 100000
                              ELSE 83000)
                      /\ dac_value' = (pid'.output_percent * 255) \div 100000
                 ELSE /\ state' = STATE_COMPLETED
                      /\ pid'.output_percent = 0
                      /\ dac_value' = 0]_vars

\* a fill has gone through four zone changes, the last into Fine at 83 %,
\* and has completed with the command at 0
C13_FillThroughZones ==
    /\ state = STATE_COMPLETED
    /\ ~pid_enabled
    /\ zone_transitions = 4
    /\ active_zone = ZONE_FINE
    /\ pressure_setpoint_pct = PRESSURE_FINE
    /\ pid.output_percent = 0
    /\ dac_value = 0
    /\ fill_number = 1

\* the zone table of the schedule: upper bounds in tenths of a percent
ZoneTable == << [zone |-> ZONE_FAST,     bound |-> 600],
                [zone |-> ZONE_MODERATE, bound |-> 850],
                [zone |-> ZONE_SLOW,     bound |-> 975],
                [zone |-> ZONE_FINE,     bound |-> 1000] >>

\* the first entry of the table whose bound is strictly above
\* p = 100 * w / t (bound / 10 > 100 * w / t), or complete from p = 100 on
ScheduleOf(w, t) ==
    LET Above(i) == ZoneTable[i].bound * t > 1000 * w
        first == CHOOSE i \in 1 .. 4 : Above(i) /\ \A j \in 1 .. (i - 1) : ~Above(j)
    IN  IF 100 * w < 100 * t THEN ZoneTable[first].zone ELSE "COMPLETE"

C15_AtomicCompletion ==
    [][(state # STATE_COMPLETED /\ state' = STATE_COMPLETED)
          => /\ fill_number' = fill_number + 1
             /\ fills_today' = fills_today + 1
             /\ total_lbs_today' = total_lbs_today + current_weight_lbs]_vars

\* C16: under hybrid control (pid_enabled true) every Control tick in
\* Filling leaves a command within [0, 100] that differs from the base
\* percent of the active zone by no more than the PID range of that zone
\* (Fast 8, Moderate 16, Slow 13, Fine 16).
C16_WithinZoneRange ==
    [][(ControlTick /\ state = STATE_FILLING /\ pid_enabled
            /\ ~autotune.active /\ state' = STATE_FILLING)
          => /\ pid'.output_percent \in 0 .. 100000
             /\ Abs(pid'.output_percent - ZoneSetpoint(active_zone'))
                    <= get_zone_pid_range(active_zone')]_vars

\* a Control tick that runs the auto-tune engine: control_task calls
\* pressure_controller_run_autotune on an active auto-tune
EngineTick == ControlTick /\ state = STATE_FILLING /\ autotune.active

C18_ActiveIsPumped ==
    (autotune.active /\ at_ticked) => autotune_state # AUTOTUNE_INIT

\* C19: pressure_controller_cancel_autotune, called in any phase, leaves
\* the phase Cancelled, the auto-tune inactive and the actuator at 0 %.
C19_CancelStopsTune ==
    [][CancelAutotune
          => /\ autotune_state' = AUTOTUNE_CANCELLED
             /\ ~autotune'.active
             /\ dac_value' = 0 /\ pid'.output_percent = 0]_vars

\* an auto-tune was cancelled in its relay test, the relay on its low side
C19_CancelledInRelayTest ==
    /\ autotune_state = AUTOTUNE_CANCELLED
    /\ ~autotune.active
    /\ ~autotune.relay_state
    /\ autotune.relay_output_low = 30000
    /\ Len(autotune.peak_values) < AUTOTUNE_MIN_OSCILLATIONS + 1
    /\ current_weight_lbs < AUTOTUNE_TARGET_WEIGHT
    /\ target_weight_lbs = AUTOTUNE_TARGET_WEIGHT
    /\ state = STATE_FILLING
    /\ dac_value = 0 /\ pid.output_percent = 0

\* the active gains, the tuned flag and the parameters in flash
TunedParams == <<pid.kp, pid.ki, pid.kd, pid_tuned, nvs>>

\* C20: no step of an auto-tune (start, engine tick, cancel; ending
\* Complete, Timeout or Cancelled) changes the active gains kp, ki, kd, the
\* tuned flag or the parameters in flash: they change only when the
\* operator commits (set_pid_params) or saves (save_pid_params).
C20_TuneKeepsParams ==
    [][TunedParams' # TunedParams
          => /\ ~StartAutotune /\ ~CancelAutotune /\ ~EngineTick
             /\ CommitTuned \/ SavePidParams]_vars

\* an auto-tune has completed with gains of its own while the active gains,
\* the tuned flag and the flash still hold the earlier tuning
C20_CompleteNotCommitted ==
    /\ autotune_state = AUTOTUNE_COMPLETE
    /\ TuneUsable(autotune)
    /\ autotune.calculated_kp # pid.kp
    /\ nvs = NvsTuned
    /\ pid.kp = NvsTuned.kp /\ pid.ki = NvsTuned.ki /\ pid.kd = NvsTuned.kd
    /\ pid_tuned

(***************************************************************************)
(* Auto-tune failure, recovery and error reporting                         *)
(***************************************************************************)
\* C21: a Calculating tick of the engine that finds fewer than four peaks
\* (the relay test ended on the weight) ends with phase Timeout, sets the
\* error AutotuneTimeout, exposes no gains, and the same Control tick puts
\* the mode in Error with the actuator at 0 %
C21_FewPeaksFail ==
    [][(/\ autotune_state = AUTOTUNE_CALCULATING
        /\ Len(autotune.peak_values) < AUTOTUNE_MIN_OSCILLATIONS + 1
        /\ ~autotune_timed_out(autotune_elapsed_ms)
        /\ EngineTick)
       => /\ autotune_state' = AUTOTUNE_TIMEOUT
          /\ error' = ERROR_AUTOTUNE_TIMEOUT
          /\ autotune'.calculated_kp = 0
          /\ autotune'.calculated_ki = 0
          /\ autotune'.calculated_kd = 0
          /\ state' = STATE_ERROR
          /\ dac_value' = 0]_vars

\* C22: Error and Cancelled are left by a reset: an Operator tick that
\* reads the confirm button down in either mode returns the mode to Idle,
\* and the mode leaves Error in no other step
C22_ResetReturnsToIdle ==
    [][/\ (state \in {STATE_ERROR, STATE_CANCELLED} /\ DisplayTick(TRUE, 0))
            => state' = STATE_IDLE
       /\ (state = STATE_ERROR /\ state' # STATE_ERROR)
            => DisplayTick(TRUE, 0)]_vars

\* C23: the error field is None unless the mode is Error
C23_ErrorOnlyInError == error # ERROR_NONE => state = STATE_ERROR

\* C24: in Filling, the Control tick that follows MaxScaleFails failed
\* reads of the scale in a row puts the mode in Error with the actuator
\* at 0 %; an earlier failed read only clears scale_online and leaves the
\* mode and the weight as they are
C24_ScaleLossFails ==
    [][/\ (state = STATE_FILLING /\ scale_fails >= MaxScaleFails /\ ControlTick)
            => (state' = STATE_ERROR /\ dac_value' = 0)
       /\ (state = STATE_FILLING /\ scale_fails + 1 < MaxScaleFails /\ ScaleFail)
            => /\ ~scale_online'
               /\ state' = state
               /\ current_weight_lbs' = current_weight_lbs]_vars

(***************************************************************************)
(* PID engine and parameter store                                          *)
(***************************************************************************)
\* C25: after every call of the PID, alone or through the hybrid entry
\* point, the integral accumulator is within [-50, +50]
C25_IntegralBounded ==
    pid.integral >= PID_INTEGRAL_MIN /\ pid.integral <= PID_INTEGRAL_MAX

\* C26: a call of compute_pid with a time step of 0 or above one second
\* leaves the integral as it is, stores the measurement as the previous
\* one, restarts the clock and returns what the previous call returned
C26_RejectedStepKeepsOutput ==
    [][\A a \in PidArgs :
          ((a[3] <= 0 \/ a[3] > 1000000) /\ PidCall(a[1], a[2], a[3]))
             => /\ pid'.integral = pid.integral
                /\ pid'.prev_measurement = a[2]
                /\ pid_elapsed_ms' = 0
                /\ pid_returned' = pid_returned]_vars

\* C27: every call of compute_pid stores its measurement, and a call with
\* a valid time step whose measurement is the stored one returns the
\* proportional plus the integral term, clamped to [0, 100]: the
\* derivative term is zero whatever the setpoint does
C27_NoDerivativeKick ==
    [][\A a \in PidArgs :
          PidCall(a[1], a[2], a[3])
             => /\ pid'.prev_measurement = a[2]
                /\ (a[3] > 0 /\ a[3] <= 1000000 /\ a[2] = pid.prev_measurement)
                     => LET pi == MulDiv(a[1] - a[2], pid.kp, 1000)
                                  + MulDiv(pid'.integral, pid.ki, 1000)
                        IN  pid_returned' = IF pi < PID_OUTPUT_MIN THEN PID_OUTPUT_MIN
                                            ELSE IF pi > PID_OUTPUT_MAX THEN PID_OUTPUT_MAX
                                            ELSE pi]_vars

\* a second call at measurement 0, as the first, with the setpoint stepped
\* from 0 to 3.0 after half a second: 2.5 * 3.0 + 0.5 * 1.5 = 8.25
C27_SetpointStep ==
    /\ pid_calls = 2
    /\ pid.prev_measurement = 0
    /\ pid.integral = 1500
    /\ pid_returned = 8250

C29_StartWeightCaptured ==
    [][(state = STATE_SAFETY_CHECK /\ state' = STATE_FILLING)
          => start_weight_lbs' = current_weight_lbs]_vars

(***************************************************************************)
(* Calculation of the gains                                                *)
(***************************************************************************)
\* C30: a Calculating tick on four or more peaks with an amplitude above
\* zero ends in phase Complete with Pu the mean of the differences of
\* consecutive peak times, Ku = 4 * step / (pi * A) for A the largest
\* |value[i+1] - value[i]|, Kp = 0.6 Ku, Ki = 1.2 Ku / Pu and
\* Kd = 0.075 Ku Pu (each to the thousandth below, pi taken as 3.142)
C30_ZieglerNichols ==
    [][(/\ autotune_state = AUTOTUNE_CALCULATING
        /\ Len(autotune.peak_values) >= AUTOTUNE_MIN_OSCILLATIONS + 1
        /\ ~autotune_timed_out(autotune_elapsed_ms)
        /\ EngineTick)
       => LET t  == autotune.peak_times
              v  == autotune.peak_values
              n  == Len(t)
              A  == CHOOSE a \in {Abs(v[i + 1] - v[i]) : i \in 1 .. n - 1} :
                       \A i \in 1 .. n - 1 : Abs(v[i + 1] - v[i]) <= a
              pu == autotune'.ultimate_period
              ku == autotune'.ultimate_gain
              kp == autotune'.calculated_kp
              ki == autotune'.calculated_ki
              kd == autotune'.calculated_kd
          IN  /\ autotune_state' = AUTOTUNE_COMPLETE
              /\ pu * (n - 1) <= t[n] - t[1]
              /\ t[n] - t[1] < (pu + 1) * (n - 1)
              /\ A > 0 =>
                   /\ ku * 3142 * A <= 4 * AUTOTUNE_STEP_PERCENT * 1000
                   /\ 4 * AUTOTUNE_STEP_PERCENT * 1000 < (ku + 1) * 3142 * A
                   /\ kp * 1000 <= 600 * ku /\ 600 * ku < (kp + 1) * 1000
                   /\ ki * pu <= 1200 * ku /\ 1200 * ku < (ki + 1) * pu
                   /\ kd * 1000 <= 75 * ku * (pu \div 1000)
                   /\ 75 * ku * (pu \div 1000) < (kd + 1) * 1000]_vars

\* the peaks at 1, 3, 5, 7 s with 10, 20, 15, 22 lbs: Pu = 2.0 s and, from
\* A = 10, Ku = 8 / pi = 2.546, Kp = 1.527, Ki = 1.527, Kd = 0.381
C30_ExampleTuned ==
    /\ autotune_state = AUTOTUNE_COMPLETE
    /\ autotune.peak_times = <<1000, 3000, 5000, 7000>>
    /\ autotune.peak_values = <<10, 20, 15, 22>>
    /\ autotune.ultimate_period = 2000
    /\ autotune.ultimate_gain = 2546
    /\ autotune.calculated_kp = 1527
    /\ autotune.calculated_ki = 1527
    /\ autotune.calculated_kd = 381

(***************************************************************************)
(* Zone transitions                                                        *)
(***************************************************************************)
\* a whole pass of control_task in STATE_FILLING outside auto-tune that
\* selects a zone (the fill is not complete)
ZoneTick ==
    /\ state = STATE_FILLING
    /\ ~autotune.active
    /\ SelectZone(current_weight_lbs, target_weight_lbs) # "COMPLETE"
    /\ ControlTick

\* C31: a Control tick in Filling whose selected zone differs from
\* active_zone adds exactly one to zone_transitions and resets the PID
\* engine (integral and previous measurement are zero unless the same tick
\* goes on to evaluate the PID), under zone control as under hybrid
\* control; a tick whose zone is unchanged does neither
C31_ZoneChangeResets ==
    [][ZoneTick
       => IF SelectZone(current_weight_lbs, target_weight_lbs) # active_zone
          THEN /\ zone_transitions' = zone_transitions + 1
               /\ pid_calls' = pid_calls
                     => pid'.integral = 0 /\ pid'.prev_measurement = 0
          ELSE /\ zone_transitions' = zone_transitions
               /\ pid_calls' = pid_calls
                     => /\ pid'.integral = pid.integral
                        /\ pid'.prev_measurement = pid.prev_measurement]_vars

\* C32: zone_transitions does not decrease while a fill lasts, and is 0
\* again whenever the mode enters Idle
C32_TransitionsPerFill ==
    [][/\ (state = STATE_FILLING /\ state' = STATE_FILLING)
             => zone_transitions' >= zone_transitions
       /\ (state # STATE_IDLE /\ state' = STATE_IDLE)
             => zone_transitions' = 0]_vars

(***************************************************************************)
(* Relay test                                                              *)
(***************************************************************************)
\* C33: a tick of the relay test switches the relay high exactly when the
\* weight is below the auto-tune setpoint and the relay is low, and low
\* exactly when the weight is above it and the relay is high; whenever the
\* phase is RelayTest the actuator command is center + step with the relay
\* high and center - step with the relay low
C33_RelayFollowsWeight ==
    [][/\ autotune_state' = AUTOTUNE_RELAY_TEST
             => /\ pid'.output_percent =
                       IF autotune'.relay_state
                       THEN AUTOTUNE_PRESSURE_CENTER + AUTOTUNE_STEP_PERCENT
                       ELSE AUTOTUNE_PRESSURE_CENTER - AUTOTUNE_STEP_PERCENT
                /\ dac_value' = DacCode(pid'.output_percent)
       /\ (/\ autotune_state = AUTOTUNE_RELAY_TEST
           /\ ~autotune_timed_out(autotune_elapsed_ms)
           /\ EngineTick)
             => /\ (~autotune.relay_state /\ autotune'.relay_state)
                      <=> (current_weight_lbs < AUTOTUNE_WEIGHT_SETPOINT
                           /\ ~autotune.relay_state)
                /\ (autotune.relay_state /\ ~autotune'.relay_state)
                      <=> (current_weight_lbs > AUTOTUNE_WEIGHT_SETPOINT
                           /\ autotune.relay_state)]_vars

\* a relay test that has switched low at 30 lbs and high again at 10 lbs
C33_RelayBackHigh ==
    /\ autotune_state = AUTOTUNE_RELAY_TEST
    /\ autotune.relay_state
    /\ Len(autotune.peak_values) = 1
    /\ current_weight_lbs = 10
    /\ autotune.last_weight = 10
    /\ pid.output_percent = 70000
    /\ dac_value = 178

\* C34: the phase becomes Calculating only from RelayTest, on the tick
\* after whose peak detection four peaks are held or on which the weight
\* is at least 50 lbs, and on every such tick; that tick commands 0 %.
\* The phase becomes RelayTest only from Settling, on the tick on which
\* the weight is above 5 lbs, and on every such tick.
C34_RelayTestExit ==
    [][/\ (autotune_state # AUTOTUNE_CALCULATING
           /\ autotune_state' = AUTOTUNE_CALCULATING)
             => /\ autotune_state = AUTOTUNE_RELAY_TEST
                /\ \/ Len(autotune'.peak_values) >= 4
                   \/ current_weight_lbs >= 50
                /\ pid'.output_percent = 0
                /\ dac_value' = 0
       /\ (autotune_state # AUTOTUNE_RELAY_TEST
           /\ autotune_state' = AUTOTUNE_RELAY_TEST)
             => autotune_state = AUTOTUNE_SETTLING /\ current_weight_lbs > 5
       /\ (/\ autotune_state = AUTOTUNE_RELAY_TEST
           /\ ~autotune_timed_out(autotune_elapsed_ms)
           /\ EngineTick)
             => (autotune_state' = AUTOTUNE_CALCULATING
                   <=> \/ Len(autotune'.peak_values) >= 4
                       \/ current_weight_lbs >= 50)
       /\ (/\ autotune_state = AUTOTUNE_SETTLING
           /\ ~autotune_timed_out(autotune_elapsed_ms)
           /\ EngineTick)
             => autotune_state' = IF current_weight_lbs > 5
                                  THEN AUTOTUNE_RELAY_TEST
                                  ELSE AUTOTUNE_SETTLING]_vars

\* the relay test has ended on its fourth peak, the weight below 50 lbs
C34_EndedOnFourthPeak ==
    /\ autotune_state = AUTOTUNE_CALCULATING
    /\ autotune.active
    /\ Len(autotune.peak_values) = 4
    /\ current_weight_lbs = 0
    /\ pid.output_percent = 0
    /\ dac_value = 0

(***************************************************************************)
(* End of an auto-tune                                                     *)
(***************************************************************************)
\* C35: once an auto-tune has ended (result Ok, result Failure or cancel)
\* the actuator command is 0 %, and a Control tick does not leave the mode
\* in Filling: the fill control law does not resume before a new start
C35_EndedTuneStaysStopped ==
    [][/\ (tune_ended' /\ state' = STATE_FILLING) => dac_value' = 0
       /\ (tune_ended /\ ControlTick)
             => state' # STATE_FILLING /\ dac_value' = 0]_vars

(***************************************************************************)
(* Stop against a running tick                                             *)
(***************************************************************************)
\* C36: after a stop accepted in Filling, a Control tick that had read the
\* mode before the stop sets the mode neither to Filling nor to Completed
\* and counts no fill
C36_StopNotLost ==
    [][(control_pc = "fill" /\ state = STATE_CANCELLED)
          => /\ state' \notin {STATE_FILLING, STATE_COMPLETED}
             /\ fill_number' = fill_number
             /\ fills_today' = fills_today
             /\ total_lbs_today' = total_lbs_today]_vars

(***************************************************************************)
(* Pump off outside a fill                                                 *)
(***************************************************************************)
\* C37: in every reachable state whose mode is Idle, SafetyCheck or
\* Completed the actuator command is 0 %
C37_OffOutsideFill ==
    state \in {STATE_IDLE, STATE_SAFETY_CHECK, STATE_COMPLETED}
        => dac_value = 0

\* a fill pumped through every zone is Completed with the actuator at 0 %
C37_CompletedAfterPumping ==
    /\ state = STATE_COMPLETED
    /\ fill_number = 1
    /\ active_zone = ZONE_FINE
    /\ pressure_setpoint_pct = PRESSURE_FINE
    /\ zone_transitions = 4
    /\ dac_value = 0

C39_EncoderInIdle ==
    [][/\ (state' # state \/ target_weight_lbs' # target_weight_lbs)
             => \A t \in {10, 12, 200, 248, 250, target_weight_lbs'},
                   delta \in {-1, 1} :
                   /\ display_handle_encoder(STATE_IDLE, t, delta) =
                         IF t + 5 * delta < 10 THEN 10
                         ELSE IF t + 5 * delta > 250 THEN 250
                         ELSE t + 5 * delta
                   /\ state' # STATE_IDLE
                         => display_handle_encoder(state', t, delta) = t
       /\ detents' # detents
             => /\ state = STATE_IDLE
                /\ \/ target_weight_lbs' = target_weight_lbs + 5
                   \/ target_weight_lbs' = target_weight_lbs - 5
                   \/ target_weight_lbs' = 250 /\ target_weight_lbs > 245
                   \/ target_weight_lbs' = 10 /\ target_weight_lbs < 15]_vars

\* one detent down from the default target, in Idle
C39_OneDetentDown ==
    /\ state = STATE_IDLE
    /\ detents = 1
    /\ target_weight_lbs = DEFAULT_TARGET_WEIGHT_LBS - 5

(***************************************************************************)
(* Progress of a fill                                                      *)
(***************************************************************************)
\* C40: with the Control and Operator tasks scheduled fairly, every safety
\* stage confirmed in time, no stop and a weight that reaches the target,
\* a fill that has been started reaches Completed, and a Completed fill
\* returns to Idle, where a POST /start is accepted
C40_FillCompletes ==
    /\ (state = STATE_SAFETY_CHECK) ~> (state = STATE_COMPLETED)
    /\ (state = STATE_COMPLETED)
          ~> (/\ state = STATE_IDLE
              /\ api_start_fill_handler(state).status = "success"
              /\ api_start_fill_handler(state).state = STATE_SAFETY_CHECK)

\* a fill confirmed four times has completed at the target and the mode is
\* Idle again
C40_BackInIdle ==
    /\ state = STATE_IDLE
    /\ control_pc = "run"
    /\ fill_number = 1
    /\ confirms = 4
    /\ safety_state = SAFETY_COMPLETE
    /\ current_weight_lbs = target_weight_lbs

=============================================================================
